---------------------------- MODULE Spec2Model ----------------------------
(***************************************************************************)
(* A model of the financial label-mapping pipeline (financial_mapper):     *)
(* normalizer, synonym dictionary, fuzzy matcher, validator and the        *)
(* orchestrating pipeline.                                                 *)
(*                                                                         *)
(* Python strings are sequences of one-character strings; a character      *)
(* outside ASCII is written as its code point, "U+2013".  Python's None is *)
(* the one-element sequence None, which no string equals.                  *)
(***************************************************************************)
EXTENDS Integers, Sequences, FiniteSets, TLC

(***************************************************************************)
(* Generic helpers                                                         *)
(***************************************************************************)
None == <<"<None>">>

Max(a, b) == IF a >= b THEN a ELSE b

Min(a, b) == IF a <= b THEN a ELSE b

Abs(x) == IF x < 0 THEN -x ELSE x

Range(s) == {s[i] : i \in 1..Len(s)}

RECURSIVE FilterSeq(_, _)
FilterSeq(s, keep) ==
    IF s = <<>> THEN <<>>
    ELSE (IF Head(s) \in keep THEN <<Head(s)>> ELSE <<>>) \o FilterSeq(Tail(s), keep)

\* a Python dict is a function; d[k] = v
DictSet(d, k, v) == [x \in (DOMAIN d) \cup {k} |-> IF x = k THEN v ELSE d[x]]

\* d.get(k)
DictGet(d, k) == IF k \in DOMAIN d THEN d[k] ELSE None

EmptyDict == <<>>

(***************************************************************************)
(* Characters                                                              *)
(***************************************************************************)
UpperCase == <<"A","B","C","D","E","F","G","H","I","J","K","L","M",
               "N","O","P","Q","R","S","T","U","V","W","X","Y","Z">>

LowerCase == <<"a","b","c","d","e","f","g","h","i","j","k","l","m",
               "n","o","p","q","r","s","t","u","v","w","x","y","z">>

Digits == <<"0","1","2","3","4","5","6","7","8","9">>

\* what str.strip() and the regex class \s treat as whitespace
WhiteSpace == {" ", "\t", "\n"}

\* code points, for the order sorted() puts tokens in
Ord(c) ==
    IF c \in WhiteSpace THEN 32
    ELSE IF c = "&" THEN 38
    ELSE IF c = "-" THEN 45
    ELSE IF c \in Range(Digits) THEN 47 + (CHOOSE i \in 1..10 : Digits[i] = c)
    ELSE IF c \in Range(UpperCase) THEN 64 + (CHOOSE i \in 1..26 : UpperCase[i] = c)
    ELSE IF c \in Range(LowerCase) THEN 96 + (CHOOSE i \in 1..26 : LowerCase[i] = c)
    ELSE 200

\* str.lower(), one character
LowerChar(c) ==
    IF c \in Range(UpperCase)
    THEN LowerCase[CHOOSE i \in 1..26 : UpperCase[i] = c]
    ELSE c

Lower(s) == [i \in 1..Len(s) |-> LowerChar(s[i])]

RECURSIVE LStrip(_)
LStrip(s) ==
    IF s # <<>> /\ Head(s) \in WhiteSpace THEN LStrip(Tail(s)) ELSE s

RECURSIVE RStrip(_)
RStrip(s) ==
    IF s # <<>> /\ s[Len(s)] \in WhiteSpace
    THEN RStrip(SubSeq(s, 1, Len(s) - 1))
    ELSE s

\* str.strip()
Strip(s) == RStrip(LStrip(s))

IsPrefix(p, s) == Len(p) <= Len(s) /\ SubSeq(s, 1, Len(p)) = p

\* str.replace(old, new): left to right, non-overlapping
RECURSIVE Replace(_, _, _)
Replace(s, old, new) ==
    IF s = <<>> THEN <<>>
    ELSE IF IsPrefix(old, s)
         THEN new \o Replace(SubSeq(s, Len(old) + 1, Len(s)), old, new)
         ELSE <<Head(s)>> \o Replace(Tail(s), old, new)

(***************************************************************************)
(* normalizer.py: LabelNormalizer.normalize_label                          *)
(***************************************************************************)
\* the two literals of normalizer.py line 61, as the file stores them: each
\* is three characters long
EnDashLiteral == <<"U+00E2", "U+20AC", "U+201C">>

EmDashLiteral == <<"U+00E2", "U+20AC", "U+201D">>

\* _PUNCT_RE = [^a-z0-9\s\-&] : the characters the substitution keeps
LabelKept == Range(LowerCase) \cup Range(Digits) \cup WhiteSpace \cup {"-", "&"}

\* _MULTI_SPACE_RE.sub(" ", text): every run of whitespace becomes one space
RECURSIVE CollapseSpace(_)
CollapseSpace(s) ==
    IF s = <<>> THEN <<>>
    ELSE IF Head(s) \in WhiteSpace
         THEN <<" ">> \o CollapseSpace(LStrip(s))
         ELSE <<Head(s)>> \o CollapseSpace(Tail(s))

\* a variant of normalize_label: whitespace is collapsed before the
\* punctuation is removed
NormalizeLabelCollapseFirst(raw) ==
    Strip(FilterSeq(CollapseSpace(
        Replace(Replace(Lower(Strip(raw)), EnDashLiteral, <<"-">>),
                EmDashLiteral, <<"-">>)),
        LabelKept))

normalize_label(raw) ==
    Strip(CollapseSpace(FilterSeq(
        Replace(Replace(Lower(Strip(raw)), EnDashLiteral, <<"-">>),
                EmDashLiteral, <<"-">>),
        LabelKept)))

(***************************************************************************)
(* schema.py: the canonical vocabulary.  The model keeps three of the     *)
(* enumeration's fifty members.                                            *)
(***************************************************************************)
NET_SALES == <<"N","e","t"," ","S","a","l","e","s">>

NET_PROFIT == <<"N","e","t"," ","P","r","o","f","i","t">>

NET_WORTH == <<"N","e","t"," ","W","o","r","t","h">>

\* the enumeration in declaration order
CanonicalField == <<NET_SALES, NET_PROFIT, NET_WORTH>>

CANONICAL_NAMES == Range(CanonicalField)

\* canonical_lookup: the first member whose lowercased value equals the
\* stripped, lowercased name; None when there is none
canonical_lookup(name) ==
    LET hits == {i \in 1..Len(CanonicalField) :
                    Lower(CanonicalField[i]) = Lower(Strip(name))}
    IN  IF hits = {} THEN None
        ELSE CanonicalField[CHOOSE i \in hits : \A j \in hits : i <= j]

(***************************************************************************)
(* Python values.  A value is a record: its type, and for a float whether  *)
(* it is finite, NaN or an infinity; a finite number is num / 10^dec with  *)
(* no trailing zero in num when dec > 0; a str carries its characters.     *)
(***************************************************************************)
PyNone == [type |-> "NoneType", fp |-> "", num |-> 0, dec |-> 0, text |-> <<>>]

PyFloat(n, d) == [type |-> "float", fp |-> "finite", num |-> n, dec |-> d, text |-> <<>>]

PyNaN == [type |-> "float", fp |-> "nan", num |-> 0, dec |-> 0, text |-> <<>>]

PyInf == [type |-> "float", fp |-> "inf", num |-> 0, dec |-> 0, text |-> <<>>]

PyNegInf == [type |-> "float", fp |-> "-inf", num |-> 0, dec |-> 0, text |-> <<>>]

PyInt(n) == [type |-> "int", fp |-> "finite", num |-> n, dec |-> 0, text |-> <<>>]

\* an int beyond the largest float, such as 10**400
PyHugeInt == [type |-> "int", fp |-> "huge", num |-> 0, dec |-> 0, text |-> <<>>]

PyStr(chars) == [type |-> "str", fp |-> "", num |-> 0, dec |-> 0, text |-> chars]

\* a value of any other type (a list)
PyList == [type |-> "list", fp |-> "", num |-> 0, dec |-> 0, text |-> <<>>]

RECURSIVE Pow10(_)
Pow10(d) == IF d = 0 THEN 1 ELSE 10 * Pow10(d - 1)

\* abs(v) > bound, for a finite number v and a whole bound
AbsExceeds(v, bound) == Abs(v.num) > bound * Pow10(v.dec)

\* a warning or error message: its fixed text and the values formatted in
Msg(text, a, b, c) == [text |-> text, a |-> a, b |-> b, c |-> c]

(***************************************************************************)
(* schema.py: MappingResult and PipelineOutput                             *)
(***************************************************************************)
MappingResult(canonical_name, raw_label, value, confidence, match_method, warnings) ==
    [canonical_name |-> canonical_name, raw_label |-> raw_label, value |-> value,
     confidence |-> confidence, match_method |-> match_method,
     warnings |-> warnings]

PipelineOutput(mappings, unmapped, validation_errors, validation_warnings) ==
    [mappings |-> mappings, unmapped |-> unmapped,
     validation_errors |-> validation_errors,
     validation_warnings |-> validation_warnings]

\* PipelineOutput.success
success(output) == Len(output.validation_errors) = 0

(***************************************************************************)
(* validator.py                                                            *)
(***************************************************************************)
ValidationReport(errors, warnings) == [errors |-> errors, warnings |-> warnings]

\* ValidationReport.is_valid
is_valid(report) == Len(report.errors) = 0

add_error(report, msg) == [report EXCEPT !.errors = Append(@, msg)]

add_warning(report, msg) == [report EXCEPT !.warnings = Append(@, msg)]

DuplicateMsg(m, seen) ==
    Msg("Duplicate canonical mapping", m.canonical_name,
        seen[m.canonical_name], m.raw_label)

\* the loop of _check_duplicates from position i on; seen: canonical name
\* -> first raw label
RECURSIVE CheckDuplicatesFrom(_, _, _, _, _)
CheckDuplicatesFrom(config, mappings, i, seen, report) ==
    IF i > Len(mappings) THEN report
    ELSE LET m == mappings[i]
         IN  IF m.canonical_name \in DOMAIN seen
             THEN CheckDuplicatesFrom(config, mappings, i + 1, seen,
                      IF config.error_on_duplicate
                      THEN add_error(report, DuplicateMsg(m, seen))
                      ELSE add_warning(report, DuplicateMsg(m, seen)))
             ELSE CheckDuplicatesFrom(config, mappings, i + 1,
                      DictSet(seen, m.canonical_name, m.raw_label), report)

\* a variant of _check_duplicates: error_on_duplicate is not consulted
DuplicatesAlwaysWarn(config, mappings, report) ==
    CheckDuplicatesFrom([config EXCEPT !.error_on_duplicate = FALSE],
                        mappings, 1, EmptyDict, report)

_check_duplicates(config, mappings, report) ==
    CheckDuplicatesFrom(config, mappings, 1, EmptyDict, report)

RECURSIVE CheckRequiredFrom(_, _, _, _)
CheckRequiredFrom(config, mappings, k, report) ==
    IF k > Len(config.required_fields) THEN report
    ELSE CheckRequiredFrom(config, mappings, k + 1,
            IF config.required_fields[k] \notin
                  {mappings[i].canonical_name : i \in 1..Len(mappings)}
            THEN add_error(report,
                     Msg("Required field missing", config.required_fields[k], <<>>, <<>>))
            ELSE report)

\* a variant of _check_required_fields: it stops at the first missing name
RequiredStopsAtFirstMissing(config, mappings, report) ==
    LET missing == {k \in 1..Len(config.required_fields) :
                       config.required_fields[k] \notin
                           {mappings[i].canonical_name : i \in 1..Len(mappings)}}
    IN  IF missing = {} THEN report
        ELSE add_error(report,
                 Msg("Required field missing",
                     config.required_fields[CHOOSE k \in missing :
                                               \A j \in missing : k <= j],
                     <<>>, <<>>))

_check_required_fields(config, mappings, report) ==
    IF Len(config.required_fields) = 0 THEN report
    ELSE CheckRequiredFrom(config, mappings, 1, report)

\* a variant of CheckValue: non-finite values reported as warnings
CheckValueNonFiniteWarns(config, m, report) ==
    IF m.value.type = "NoneType"
    THEN add_warning(report, Msg("has value None", m.canonical_name, m.raw_label, <<>>))
    ELSE IF m.value.type \notin {"int", "float"}
    THEN add_warning(report, Msg("has non-numeric value", m.canonical_name, <<>>, <<>>))
    ELSE IF m.value.fp \in {"nan", "inf", "-inf"}
    THEN add_warning(report, Msg("has non-finite value", m.canonical_name, <<>>, <<>>))
    ELSE IF AbsExceeds(m.value, config.max_absolute_value)
    THEN add_warning(report, Msg("exceeds max_absolute_value", m.canonical_name, <<>>, <<>>))
    ELSE report

\* the loop body of _check_values for one mapping (the messages keep the
\* names they are about; the text of the value is left out)
CheckValue(config, m, report) ==
    IF m.value.type = "NoneType"
    THEN add_warning(report, Msg("has value None", m.canonical_name, m.raw_label, <<>>))
    ELSE IF m.value.type \notin {"int", "float"}
    THEN add_warning(report, Msg("has non-numeric value", m.canonical_name, <<>>, <<>>))
    ELSE IF m.value.fp \in {"nan", "inf", "-inf"}
    THEN add_error(report, Msg("has non-finite value", m.canonical_name, <<>>, <<>>))
    ELSE IF AbsExceeds(m.value, config.max_absolute_value)
    THEN add_warning(report, Msg("exceeds max_absolute_value", m.canonical_name, <<>>, <<>>))
    ELSE report

RECURSIVE CheckValuesFrom(_, _, _, _)
CheckValuesFrom(config, mappings, i, report) ==
    IF i > Len(mappings) THEN report
    ELSE CheckValuesFrom(config, mappings, i + 1,
                         CheckValue(config, mappings[i], report))

_check_values(config, mappings, report) ==
    CheckValuesFrom(config, mappings, 1, report)

\* Validator.validate
validate(config, mappings) ==
    _check_values(config, mappings,
        _check_required_fields(config, mappings,
            _check_duplicates(config, mappings,
                ValidationReport(<<>>, <<>>))))

(***************************************************************************)
(* synonym_mapper.py                                                       *)
(***************************************************************************)
SHORT_TERM_BORROWINGS ==
    <<"S","h","o","r","t","-","t","e","r","m"," ",
      "B","o","r","r","o","w","i","n","g","s">>

\* the entries of _BUILTIN_SYNONYMS whose target the model's vocabulary
\* holds, and the entry of line 339, in the table's order
_BUILTIN_SYNONYMS ==
    << <<<<"n","e","t"," ","s","a","l","e","s">>, NET_SALES>>,
       <<<<"s","a","l","e","s">>, NET_SALES>>,
       <<<<"n","e","t"," ","p","r","o","f","i","t">>, NET_PROFIT>>,
       <<<<"p","a","t">>, NET_PROFIT>>,
       <<<<"n","e","t"," ","w","o","r","t","h">>, NET_WORTH>>,
       <<<<"n","e","t","w","o","r","t","h">>, NET_WORTH>>,
       <<<<"c","u","r","r","e","n","t"," ",
           "b","o","r","r","o","w","i","n","g","s">>, SHORT_TERM_BORROWINGS>> >>

\* the loop of SynonymMapper.__init__ over the built-in table
RECURSIVE LoadBuiltin(_, _)
LoadBuiltin(i, dict) ==
    IF i > Len(_BUILTIN_SYNONYMS) THEN dict
    ELSE LoadBuiltin(i + 1,
             DictSet(dict, normalize_label(_BUILTIN_SYNONYMS[i][1]),
                     _BUILTIN_SYNONYMS[i][2]))

\* SynonymMapper(normalizer), no extra synonyms: the dictionary it holds
SynonymMapperInit == LoadBuiltin(1, EmptyDict)

\* SynonymMapper.lookup
lookup(dict, normalised_label) == DictGet(dict, normalised_label)

\* a variant of add_synonym: a key the dictionary holds keeps its target
AddSynonymKeepsExisting(dict, variant, canonical) ==
    LET cf == IF canonical \in CANONICAL_NAMES THEN canonical
              ELSE canonical_lookup(canonical)
    IN  IF cf = None
        THEN [raised |-> TRUE, dict |-> dict]
        ELSE IF normalize_label(variant) \in DOMAIN dict
        THEN [raised |-> FALSE, dict |-> dict]
        ELSE [raised |-> FALSE,
              dict |-> DictSet(dict, normalize_label(variant), cf)]

\* a variant of add_synonym: the canonical name is stored as given, unchecked
AddSynonymUnchecked(dict, variant, canonical) ==
    [raised |-> FALSE, dict |-> DictSet(dict, normalize_label(variant), canonical)]

\* SynonymMapper.add_synonym: whether it raised ValueError, and the dictionary
\* afterwards
add_synonym(dict, variant, canonical) ==
    LET cf == IF canonical \in CANONICAL_NAMES THEN canonical
              ELSE canonical_lookup(canonical)
    IN  IF cf = None
        THEN [raised |-> TRUE, dict |-> dict]
        ELSE [raised |-> FALSE,
              dict |-> DictSet(dict, normalize_label(variant), cf)]

\* SynonymMapper.add_synonyms over the items of mapping, in order; the first
\* add_synonym that raises ends the loop
RECURSIVE add_synonyms(_, _)
add_synonyms(dict, mapping) ==
    IF mapping = <<>> THEN [raised |-> FALSE, dict |-> dict]
    ELSE LET r == add_synonym(dict, Head(mapping)[1], Head(mapping)[2])
         IN  IF r.raised THEN r ELSE add_synonyms(r.dict, Tail(mapping))

(***************************************************************************)
(* Inputs and configurations the model draws from                          *)
(***************************************************************************)
\* the longest list of pairs a run is given
MaxPairs == 2

LabelPat == <<" ","P","A","T",".">>

LabelSales == <<"S","a","l","e","s">>

LabelCurrentBorrowings ==
    <<"C","u","r","r","e","n","t"," ","B","o","r","r","o","w","i","n","g","s">>

LabelNetProrth == <<"n","e","t"," ","p","r","o","r","t","h">>

LabelNetWrth == <<"N","e","t"," "," ","W","r","t","h">>

LabelXyz == <<"x","y","z">>

Five == PyInt(5)

FivePercent == PyStr(<<"5","%">>)

\* the (raw label, raw value) pairs a run's input is made of
RawPairs ==
    { <<LabelPat, Five>>, <<LabelPat, PyNaN>>,
      <<LabelSales, PyNone>>,
      <<LabelCurrentBorrowings, Five>>,
      <<LabelNetProrth, Five>>,
      <<LabelNetWrth, Five>>, <<LabelNetWrth, FivePercent>>,
      <<LabelXyz, Five>>, <<LabelSales, PyHugeInt>> }

\* the longest label of the exhaustive part of the matcher's queries
MaxLabelLen == 3

FuzzyAlphabet == {"n", "e", "t", "a", "x", " "}

RECURSIVE StringsUpTo(_, _)
StringsUpTo(alphabet, n) ==
    IF n = 0 THEN {<<>>}
    ELSE LET shorter == StringsUpTo(alphabet, n - 1)
         IN  shorter \cup {Append(w, c) : w \in shorter, c \in alphabet}

LabelProfitNet == <<"p","r","o","f","i","t"," ","n","e","t">>

LabelNetWoofit == <<"n","e","t"," ","w","o","o","f","i","t">>

\* the labels FuzzyMatcher.match is called with: every string over the
\* alphabet up to the length bound, and the labels of the input pairs
MatchLabels ==
    StringsUpTo(FuzzyAlphabet, MaxLabelLen)
        \cup {normalize_label(p[1]) : p \in RawPairs}
        \cup {LabelProfitNet, LabelNetWoofit}

TAX == <<"T","a","x">>

\* the extra_targets a FuzzyMatcher is built with
ExtraTargets == {<<>>, <<TAX>>}

\* the labels the fuzzy matcher is asked about
Queries == MatchLabels

\* what add_synonym is called with
Variants == {LabelNetWrth}

Targets ==
    {NET_SALES, <<"n","e","t"," ","p","r","o","f","i","t">>,
     SHORT_TERM_BORROWINGS}

\* the mappings add_synonyms is called with: items in insertion order
BulkMappings ==
    { << <<LabelXyz, SHORT_TERM_BORROWINGS>>, <<LabelNetWrth, NET_SALES>> >>,
      << <<LabelNetWrth, NET_PROFIT>>, <<LabelXyz, <<"n","o","n","e">> >> >> }

RECURSIVE Orderings(_)
Orderings(S) ==
    IF S = {} THEN {<<>>}
    ELSE UNION {{<<x>> \o p : p \in Orderings(S \ {x})} : x \in S}

\* the orders in which the set CANONICAL_NAMES can be iterated
SetOrders == Orderings(CANONICAL_NAMES)

\* the configurations a pipeline is built with
Configs ==
    [fuzzy_threshold : {80, 95},
     fuzzy_ambiguity_delta : {5},
     strict_mode : BOOLEAN,
     required_fields : {<<>>, <<NET_SALES>>},
     max_absolute_value : {1000},
     error_on_duplicate : BOOLEAN,
     enable_semantic_layer : {FALSE}]

\* the configurations a FuzzyMatcher alone is built with
FuzzyConfigs ==
    [fuzzy_threshold : {50, 80},
     fuzzy_ambiguity_delta : {0, 5},
     strict_mode : {FALSE},
     required_fields : {<<>>},
     max_absolute_value : {1000},
     error_on_duplicate : {TRUE},
     enable_semantic_layer : {FALSE}]

\* the configurations a Validator alone is built with
ValidatorConfigs ==
    [fuzzy_threshold : {80},
     fuzzy_ambiguity_delta : {5},
     strict_mode : {FALSE},
     required_fields : {<<>>, <<NET_SALES>>, <<NET_SALES, NET_WORTH>>,
                        <<NET_WORTH, NET_WORTH>>},
     max_absolute_value : {1000},
     error_on_duplicate : BOOLEAN,
     enable_semantic_layer : {FALSE}]

\* the longest list of mappings Validator.validate is given
MaxMappings == 2

\* the values of the mappings Validator.validate is given
MappingValues ==
    {PyNone, PyFloat(5, 0), PyFloat(5000, 0), PyNaN, PyInf, PyNegInf,
     PyStr(<<"5">>)}

\* the mappings Validator.validate is given
MappingChoices ==
    {MappingResult(name, raw, value, [num |-> 100, den |-> 1], "synonym", <<>>) :
        name \in {NET_SALES, NET_PROFIT}, raw \in {LabelPat, LabelXyz},
        value \in MappingValues}

RECURSIVE ListsUpTo(_, _)
ListsUpTo(S, n) ==
    IF n = 0 THEN {<<>>}
    ELSE LET shorter == ListsUpTo(S, n - 1)
         IN  shorter \cup {Append(l, x) : l \in shorter, x \in S}

(***************************************************************************)
(* rapidfuzz, as fuzzy_matcher.py uses it.  A score is the exact fraction  *)
(* num / den in lowest terms.                                              *)
(***************************************************************************)
RECURSIVE Gcd(_, _)
Gcd(a, b) == IF b = 0 THEN a ELSE Gcd(b, a % b)

Score(num, den) ==
    LET g == Gcd(num, den)
    IN  IF num = 0 THEN [num |-> 0, den |-> 1]
        ELSE [num |-> num \div g, den |-> den \div g]

ScoreLess(a, b) == a.num * b.den < b.num * a.den

\* a - b <= delta, delta a whole number
ScoreGapAtMost(a, b, delta) ==
    a.num * b.den - b.num * a.den <= delta * a.den * b.den

\* one row of the longest-common-subsequence table: the row for character c
\* from the row before it
RECURSIVE LcsRow(_, _, _, _)
LcsRow(c, b, prev, cur) ==
    LET j == Len(cur)
    IN  IF j > Len(b) THEN cur
        ELSE LcsRow(c, b, prev,
                 Append(cur, IF c = b[j] THEN prev[j] + 1
                             ELSE Max(prev[j + 1], cur[j])))

\* the rows of the table, from the row of the empty prefix of a on
RECURSIVE LcsRows(_, _, _)
LcsRows(a, b, rows) ==
    LET i == Len(rows)
    IN  IF i > Len(a) THEN rows
        ELSE LcsRows(a, b, Append(rows, LcsRow(a[i], b, rows[i], <<0>>)))

\* length of the longest common subsequence of a and b
Lcs(a, b) ==
    LcsRows(a, b, <<[j \in 1..(Len(b) + 1) |-> 0]>>)[Len(a) + 1][Len(b) + 1]

\* fuzz.ratio: the normalized Indel similarity, times 100
ratio(a, b) ==
    IF Len(a) + Len(b) = 0 THEN Score(100, 1)
    ELSE Score(200 * Lcs(a, b), Len(a) + Len(b))

\* str.split(): the whitespace-separated tokens
RECURSIVE Split(_, _)
Split(s, tok) ==
    IF s = <<>> THEN (IF tok = <<>> THEN <<>> ELSE <<tok>>)
    ELSE IF Head(s) \in WhiteSpace
         THEN (IF tok = <<>> THEN <<>> ELSE <<tok>>) \o Split(Tail(s), <<>>)
         ELSE Split(Tail(s), Append(tok, Head(s)))

\* string order by code point
RECURSIVE StrLess(_, _)
StrLess(a, b) ==
    IF b = <<>> THEN FALSE
    ELSE IF a = <<>> THEN TRUE
    ELSE IF Ord(Head(a)) # Ord(Head(b)) THEN Ord(Head(a)) < Ord(Head(b))
    ELSE StrLess(Tail(a), Tail(b))

RECURSIVE InsertSorted(_, _)
InsertSorted(tok, sorted) ==
    IF sorted = <<>> THEN <<tok>>
    ELSE IF StrLess(tok, Head(sorted)) THEN <<tok>> \o sorted
    ELSE <<Head(sorted)>> \o InsertSorted(tok, Tail(sorted))

\* sorted(tokens)
RECURSIVE SortTokens(_)
SortTokens(toks) ==
    IF toks = <<>> THEN <<>>
    ELSE InsertSorted(toks[Len(toks)], SortTokens(SubSeq(toks, 1, Len(toks) - 1)))

\* " ".join(tokens)
RECURSIVE Join(_)
Join(toks) ==
    IF toks = <<>> THEN <<>>
    ELSE IF Len(toks) = 1 THEN toks[1]
    ELSE toks[1] \o <<" ">> \o Join(Tail(toks))

\* fuzz.token_sort_ratio
token_sort_ratio(s1, s2) ==
    ratio(Join(SortTokens(Split(s1, <<>>))), Join(SortTokens(Split(s2, <<>>))))

\* limit=5 of process.extract
ExtractLimit == 5

\* whether result x comes before result y: higher score first, equal scores
\* in the order of the choices
ResultBefore(x, y) ==
    ScoreLess(y.score, x.score) \/ (x.score = y.score /\ x.index < y.index)

\* token_sort_ratio, computed once for the queries and the canonical names
\* (f @@ <<>> is f, stored as a table of its values)
ScoreTable ==
    [q \in Queries |->
        [c \in {Lower(name) : name \in CANONICAL_NAMES \cup {TAX}} |->
            token_sort_ratio(q, c)] @@ <<>>] @@ <<>>

\* the scorer process.extract calls
scorer(query, choice) ==
    IF query \in DOMAIN ScoreTable /\ choice \in DOMAIN ScoreTable[query]
    THEN ScoreTable[query][choice]
    ELSE token_sort_ratio(query, choice)

\* the (choice, score, index) result of every choice
AllResults(query, choices) ==
    [i \in 1..Len(choices) |->
        [choice |-> choices[i],
         score |-> scorer(query, choices[i]),
         index |-> i]]

\* the first limit results, best first
TopResults(all, limit) ==
    [r \in 1..Min(limit, Len(all)) |->
        all[CHOOSE i \in 1..Len(all) :
               Cardinality({j \in 1..Len(all) : ResultBefore(all[j], all[i])}) + 1 = r]]

\* process.extract(query, choices, scorer=token_sort_ratio, limit=5)
extract(query, choices) == TopResults(AllResults(query, choices), ExtractLimit)

(***************************************************************************)
(* fuzzy_matcher.py                                                        *)
(***************************************************************************)
FuzzyCandidate(canonical_name, score, is_ambiguous) ==
    [canonical_name |-> canonical_name, score |-> score,
     is_ambiguous |-> is_ambiguous]

\* a candidate-shaped value for "no candidate"
NoCandidate == FuzzyCandidate(None, Score(0, 1), FALSE)

\* FuzzyMatcher.__init__: _targets and _target_keys, from the order in which
\* the set CANONICAL_NAMES is iterated and the extra targets
RECURSIVE BuildTargets(_, _)
BuildTargets(names, fm) ==
    IF names = <<>> THEN fm
    ELSE LET key == Lower(Head(names))
         IN  BuildTargets(Tail(names),
                 [_targets |-> DictSet(fm._targets, key, Head(names)),
                  _target_keys |-> IF key \in DOMAIN fm._targets
                                   THEN fm._target_keys
                                   ELSE Append(fm._target_keys, key)])

FuzzyMatcherInit(set_order, extra_targets) ==
    BuildTargets(set_order \o extra_targets,
                 [_targets |-> EmptyDict, _target_keys |-> <<>>])

\* a variant of MatchResults: the best result is returned whatever its score
MatchResultsNoThreshold(fm, config, results) ==
    IF results = <<>> THEN NoCandidate
    ELSE FuzzyCandidate(
             fm._targets[results[1].choice],
             results[1].score,
             Len(results) > 1
                 /\ ScoreGapAtMost(results[1].score, results[2].score,
                                   config.fuzzy_ambiguity_delta))

\* a variant of MatchResults: ambiguous only when the gap is below the delta
MatchResultsStrictGap(fm, config, results) ==
    IF results = <<>> THEN NoCandidate
    ELSE IF ScoreLess(results[1].score, Score(config.fuzzy_threshold, 1))
    THEN NoCandidate
    ELSE FuzzyCandidate(
             fm._targets[results[1].choice],
             results[1].score,
             Len(results) > 1
                 /\ ~ScoreGapAtMost(results[2].score, results[1].score,
                                    -config.fuzzy_ambiguity_delta))

\* FuzzyMatcher.match from "if not results" on; NoCandidate stands for None
MatchResults(fm, config, results) ==
    IF results = <<>> THEN NoCandidate
    ELSE IF ScoreLess(results[1].score, Score(config.fuzzy_threshold, 1))
    THEN NoCandidate
    ELSE FuzzyCandidate(
             fm._targets[results[1].choice],
             results[1].score,
             Len(results) > 1
                 /\ ScoreGapAtMost(results[1].score, results[2].score,
                                   config.fuzzy_ambiguity_delta))

\* FuzzyMatcher.match
match(fm, config, normalised_label) ==
    IF normalised_label = <<>> THEN NoCandidate
    ELSE MatchResults(fm, config, extract(normalised_label, fm._target_keys))

(***************************************************************************)
(* normalizer.py: LabelNormalizer.normalize_value                          *)
(***************************************************************************)
\* the characters of the class _CURRENCY_RE, as normalizer.py line 30 stores
\* it
CurrencyChars ==
    {"U+00E2", "U+201A", "U+0105", "$", "U+00AC", "U+00C2", "U+0141", "U+0104"}

\* _PAREN_NEG_RE = ^\((.+)\)$ matches text
ParenNegMatches(text) ==
    /\ Len(text) >= 3
    /\ text[1] = "("
    /\ text[Len(text)] = ")"
    /\ \A i \in 2..(Len(text) - 1) : text[i] # "\n"

DigitValue(c) == (CHOOSE i \in 1..10 : Digits[i] = c) - 1

IsDigits(s) == s # <<>> /\ \A i \in 1..Len(s) : s[i] \in Range(Digits)

RECURSIVE DigitsToInt(_)
DigitsToInt(s) ==
    IF s = <<>> THEN 0
    ELSE 10 * DigitsToInt(SubSeq(s, 1, Len(s) - 1)) + DigitValue(s[Len(s)])

\* num / 10^dec without trailing zeros
RECURSIVE Decimal(_, _)
Decimal(num, dec) ==
    IF dec > 0 /\ num % 10 = 0 THEN Decimal(num \div 10, dec - 1)
    ELSE PyFloat(num, dec)

\* float(text) for an unsigned text: digits, digits ".", digits "." digits,
\* "." digits, or a spelling of infinity or NaN; PyNone stands for
\* ValueError.  Exponents and digit-group underscores are not modelled.
ParseUnsigned(t) ==
    LET dots == {i \in 1..Len(t) : t[i] = "."}
        dot == CHOOSE i \in dots : TRUE
        ip == SubSeq(t, 1, dot - 1)
        fp == SubSeq(t, dot + 1, Len(t))
    IN  IF Lower(t) \in {<<"i","n","f">>, <<"i","n","f","i","n","i","t","y">>}
        THEN PyInf
        ELSE IF Lower(t) = <<"n","a","n">> THEN PyNaN
        ELSE IF dots = {} THEN (IF IsDigits(t) THEN PyFloat(DigitsToInt(t), 0) ELSE PyNone)
        ELSE IF Cardinality(dots) > 1 THEN PyNone
        ELSE IF (ip = <<>> \/ IsDigits(ip)) /\ (fp = <<>> \/ IsDigits(fp))
                /\ (ip # <<>> \/ fp # <<>>)
        THEN Decimal(DigitsToInt(ip \o fp), Len(fp))
        ELSE PyNone

Negate(v) ==
    IF v.fp = "inf" THEN PyNegInf
    ELSE IF v.fp = "finite" THEN [v EXCEPT !.num = -v.num]
    ELSE v

\* float(text) of a str; PyNone stands for ValueError
ParseFloat(text) ==
    LET t == Strip(text)
    IN  IF t = <<>> THEN PyNone
        ELSE IF t[1] = "-" THEN Negate(ParseUnsigned(Tail(t)))
        ELSE IF t[1] = "+" THEN ParseUnsigned(Tail(t))
        ELSE ParseUnsigned(t)

\* a variant of ParsePercent that turns a percentage into a fraction: the
\* number before the percent sign divided by 100
ParsePercentAsFraction(text, raw) ==
    LET pct == text # <<>> /\ text[Len(text)] = "%"
        t == IF pct THEN Strip(SubSeq(text, 1, Len(text) - 1)) ELSE text
        ws == IF pct THEN <<Msg("Percent symbol stripped", <<>>, <<>>, <<>>)>> ELSE <<>>
        parsed == ParseFloat(t)
        value == IF pct /\ parsed.fp = "finite" /\ parsed.num # 0
                 THEN Decimal(parsed.num, parsed.dec + 2)
                 ELSE parsed
    IN  IF value = PyNone
        THEN [value |-> PyNone,
              warnings |-> Append(ws, Msg("Cannot parse numeric value", raw.text, <<>>, <<>>))]
        ELSE [value |-> value, warnings |-> ws]

\* the str branch of normalize_value from "# Percent sign" on
ParsePercent(text, raw) ==
    LET pct == text # <<>> /\ text[Len(text)] = "%"
        t == IF pct THEN Strip(SubSeq(text, 1, Len(text) - 1)) ELSE text
        ws == IF pct THEN <<Msg("Percent symbol stripped", <<>>, <<>>, <<>>)>> ELSE <<>>
        value == ParseFloat(t)
    IN  IF value = PyNone
        THEN [value |-> PyNone,
              warnings |-> Append(ws, Msg("Cannot parse numeric value", raw.text, <<>>, <<>>))]
        ELSE [value |-> value, warnings |-> ws]

\* float(raw) of "Already numeric": whether it raises OverflowError, which
\* nothing between it and the caller of _run catches
FloatOverflows(raw) == raw.type = "int" /\ raw.fp = "huge"

\* LabelNormalizer.normalize_value, where it returns: the parsed value (PyNone
\* for None) and the warnings
normalize_value(raw) ==
    IF raw.type = "NoneType"
    THEN [value |-> PyNone, warnings |-> <<Msg("Value is None", <<>>, <<>>, <<>>)>>]
    ELSE IF raw.type \in {"int", "float"}
    THEN [value |-> [raw EXCEPT !.type = "float"], warnings |-> <<>>]
    ELSE IF raw.type # "str"
    THEN [value |-> PyNone,
          warnings |-> <<Msg("Unexpected value type", <<>>, <<>>, <<>>)>>]
    ELSE IF Strip(raw.text) = <<>>
    THEN [value |-> PyNone,
          warnings |-> <<Msg("Value is empty string", <<>>, <<>>, <<>>)>>]
    ELSE LET t1 == Strip(FilterSeq(Strip(raw.text),
                                   Range(Strip(raw.text)) \ CurrencyChars))
             t2 == IF ParenNegMatches(t1)
                   THEN <<"-">> \o SubSeq(t1, 2, Len(t1) - 1)
                   ELSE t1
             t3 == FilterSeq(t2, Range(t2) \ {","})
         IN  ParsePercent(t3, raw)

\* LabelNormalizer.normalize_pair
NormalizedPair(label, nv) ==
    [label |-> label, value |-> nv.value, warnings |-> nv.warnings]

\* normalize_pair, computed once for the input pairs
NormalizedPairs ==
    [p \in {q \in RawPairs : ~FloatOverflows(q[2])} |->
        NormalizedPair(normalize_label(p[1]), normalize_value(p[2]))] @@ <<>>

normalize_pair(raw_label, raw_value) ==
    IF <<raw_label, raw_value>> \in DOMAIN NormalizedPairs
    THEN NormalizedPairs[<<raw_label, raw_value>>]
    ELSE NormalizedPair(normalize_label(raw_label), normalize_value(raw_value))

(***************************************************************************)
(* pipeline.py: FinancialMappingPipeline                                   *)
(***************************************************************************)
\* confidence=100.0
FullConfidence == Score(100, 1)

\* _build_result: the MappingResult and seen_canonical afterwards
_build_result(canonical_name, raw_label, value, confidence, method, warnings, seen) ==
    IF canonical_name \in DOMAIN seen
    THEN [mapped |-> TRUE,
          result |-> MappingResult(canonical_name, raw_label, value, confidence, method,
                        Append(warnings,
                            Msg("Duplicate mapping", canonical_name,
                                seen[canonical_name], raw_label))),
          seen |-> seen]
    ELSE [mapped |-> TRUE,
          result |-> MappingResult(canonical_name, raw_label, value, confidence,
                                   method, warnings),
          seen |-> DictSet(seen, canonical_name, raw_label)]

\* _semantic_match: the placeholder returns None
_semantic_match(normalised_label) == None

\* the return value None of _map_single, in the shape of _build_result's
Unmatched(seen) ==
    [mapped |-> FALSE,
     result |-> MappingResult(None, <<>>, PyNone, Score(0, 1), "", <<>>),
     seen |-> seen]

\* _map_single from "Step 4: Semantic match" on; a semantic result is the
\* pair of a canonical name and a similarity
MapSemantic(cfg, raw_label, n, seen) ==
    IF cfg.enable_semantic_layer /\ _semantic_match(n.label) # None
    THEN _build_result(_semantic_match(n.label)[1], raw_label, n.value,
             Score(_semantic_match(n.label)[2].num * 100,
                   _semantic_match(n.label)[2].den),
             "semantic", n.warnings, seen)
    ELSE Unmatched(seen)

\* a variant of MapCandidate: an ambiguous candidate is not accepted
MapCandidateRejectsAmbiguous(cfg, raw_label, n, candidate, seen) ==
    IF candidate # NoCandidate /\ ~candidate.is_ambiguous
    THEN _build_result(candidate.canonical_name, raw_label, n.value,
             candidate.score, "fuzzy", n.warnings, seen)
    ELSE MapSemantic(cfg, raw_label, n, seen)

\* _map_single from "if candidate is not None" on
MapCandidate(cfg, raw_label, n, candidate, seen) ==
    IF candidate # NoCandidate
    THEN _build_result(candidate.canonical_name, raw_label, n.value,
             candidate.score, "fuzzy",
             IF candidate.is_ambiguous
             THEN Append(n.warnings,
                      Msg("Ambiguous fuzzy match", raw_label,
                          candidate.canonical_name, <<>>))
             ELSE n.warnings,
             seen)
    ELSE MapSemantic(cfg, raw_label, n, seen)

\* a variant of MapNormalized: the fuzzy matcher is asked first
MapNormalizedFuzzyFirst(cfg, dict, fm, raw_label, n, seen) ==
    IF match(fm, cfg, n.label) # NoCandidate
    THEN MapCandidate(cfg, raw_label, n, match(fm, cfg, n.label), seen)
    ELSE IF lookup(dict, n.label) # None
    THEN _build_result(lookup(dict, n.label), raw_label, n.value,
                       FullConfidence, "synonym", n.warnings, seen)
    ELSE MapSemantic(cfg, raw_label, n, seen)

\* _map_single from "Step 2: Synonym lookup" on
MapNormalized(cfg, dict, fm, raw_label, n, seen) ==
    IF lookup(dict, n.label) # None
    THEN _build_result(lookup(dict, n.label), raw_label, n.value,
                       FullConfidence, "synonym", n.warnings, seen)
    ELSE MapCandidate(cfg, raw_label, n, match(fm, cfg, n.label), seen)

\* _map_single
_map_single(cfg, dict, fm, raw_label, raw_value, seen) ==
    MapNormalized(cfg, dict, fm, raw_label,
                  normalize_pair(raw_label, raw_value), seen)

(***************************************************************************)
(* State                                                                   *)
(***************************************************************************)
VARIABLES
    config,          \* PipelineConfig, flattened
    _dict,           \* SynonymMapper._dict
    _fuzzy,          \* FuzzyMatcher._targets and ._target_keys
    pc,              \* where the pipeline is: "ready", "running", "returned",
                     \* "raised" (RuntimeError of strict mode), "aborted"
    pairs,           \* the input pairs the running _run has consumed
    mappings,        \* _run's mappings
    unmapped,        \* _run's unmapped
    seen_canonical,  \* _run's seen_canonical
    report,          \* the ValidationReport of the finished run
    raised,          \* whether the last extension call raised ValueError
    query,           \* the label FuzzyMatcher.match was last called with
    candidate,       \* what that call returned
    year_outputs,    \* map_excel's year_outputs, in the order of the years
    call_arg,        \* the argument of the last call of the normalizer or
                     \* of the year-header functions
    call_result      \* what that call returned

vars == <<config, _dict, _fuzzy, pc, pairs, mappings, unmapped,
          seen_canonical, report, raised, query, candidate, year_outputs,
          call_arg, call_result>>

\* no call of FuzzyMatcher.match or of the LabelNormalizer on its own yet
NoMatch ==
    /\ query = <<>>
    /\ candidate = NoCandidate
    /\ call_arg = <<>>
    /\ call_result = <<>>

NoRun ==
    /\ pairs = <<>>
    /\ mappings = <<>>
    /\ unmapped = <<>>
    /\ seen_canonical = EmptyDict
    /\ report = ValidationReport(<<>>, <<>>)

\* FinancialMappingPipeline(config): the state after construction
Init ==
    /\ config \in Configs
    /\ _dict = SynonymMapperInit
    /\ \E order \in SetOrders : _fuzzy = FuzzyMatcherInit(order, <<>>)
    /\ pc = "ready"
    /\ NoRun
    /\ raised = FALSE
    /\ NoMatch
    /\ year_outputs = <<>>

\* the output _run builds (SchemaBuilder.build_output)
Output == PipelineOutput(mappings, unmapped, report.errors, report.warnings)

\* FinancialMappingPipeline.add_synonyms with a one-item mapping, which is
\* SynonymMapper.add_synonym
AddSynonym(variant, canonical) ==
    /\ pc # "running"
    /\ \E r \in {add_synonym(_dict, variant, canonical)} :
           /\ _dict' = r.dict
           /\ raised' = r.raised
    /\ pc' = "ready"
    /\ pairs' = <<>>
    /\ mappings' = <<>>
    /\ unmapped' = <<>>
    /\ seen_canonical' = EmptyDict
    /\ report' = ValidationReport(<<>>, <<>>)
    /\ UNCHANGED <<config, _fuzzy, query, candidate, year_outputs,
                   call_arg, call_result>>

\* FinancialMappingPipeline.add_synonyms
AddSynonyms(mapping) ==
    /\ pc # "running"
    /\ \E r \in {add_synonyms(_dict, mapping)} :
           /\ _dict' = r.dict
           /\ raised' = r.raised
    /\ pc' = "ready"
    /\ pairs' = <<>>
    /\ mappings' = <<>>
    /\ unmapped' = <<>>
    /\ seen_canonical' = EmptyDict
    /\ report' = ValidationReport(<<>>, <<>>)
    /\ UNCHANGED <<config, _fuzzy, query, candidate, year_outputs,
                   call_arg, call_result>>

\* a variant of StartRun: seen_canonical is kept from the run before
StartRunKeepsSeen ==
    /\ pc # "running"
    /\ pc' = "running"
    /\ pairs' = <<>>
    /\ mappings' = <<>>
    /\ unmapped' = <<>>
    /\ report' = ValidationReport(<<>>, <<>>)
    /\ raised' = FALSE
    /\ UNCHANGED <<config, _dict, _fuzzy, seen_canonical, query, candidate,
                   year_outputs,
                   call_arg, call_result>>

\* _run is entered: its locals are fresh
StartRun ==
    /\ pc # "running"
    /\ pc' = "running"
    /\ pairs' = <<>>
    /\ mappings' = <<>>
    /\ unmapped' = <<>>
    /\ seen_canonical' = EmptyDict
    /\ report' = ValidationReport(<<>>, <<>>)
    /\ raised' = FALSE
    /\ UNCHANGED <<config, _dict, _fuzzy, query, candidate, year_outputs,
                   call_arg, call_result>>

\* a variant of the iteration that records nothing for a pair no layer
\* resolves
MapPairDropsUnmatched(raw_label, raw_value) ==
    /\ pc = "running"
    /\ Len(pairs) < MaxPairs
    /\ ~FloatOverflows(raw_value)
    /\ \E r \in {_map_single(config, _dict, _fuzzy, raw_label, raw_value,
                             seen_canonical)} :
           /\ pairs' = Append(pairs, <<raw_label, raw_value>>)
           /\ mappings' = IF r.mapped THEN Append(mappings, r.result) ELSE mappings
           /\ seen_canonical' = r.seen
    /\ UNCHANGED <<config, _dict, _fuzzy, pc, report, raised, query, candidate,
                   year_outputs, call_arg, call_result, unmapped>>

\* one iteration of _run's loop, over the next pair of the input
MapPair(raw_label, raw_value) ==
    /\ pc = "running"
    /\ Len(pairs) < MaxPairs
    /\ ~FloatOverflows(raw_value)
    /\ \E r \in {_map_single(config, _dict, _fuzzy, raw_label, raw_value,
                             seen_canonical)} :
           /\ pairs' = Append(pairs, <<raw_label, raw_value>>)
           /\ mappings' = IF r.mapped THEN Append(mappings, r.result) ELSE mappings
           /\ unmapped' = IF r.mapped THEN unmapped
                          ELSE Append(unmapped,
                                   [raw_label |-> raw_label, raw_value |-> raw_value])
           /\ seen_canonical' = r.seen
    /\ UNCHANGED <<config, _dict, _fuzzy, pc, report, raised, query, candidate, year_outputs,
                   call_arg, call_result>>

\* an iteration of _run's loop whose normalize_pair raises OverflowError: the
\* exception leaves _map_single and _run, and the run has no output
MapPairOverflows(raw_label, raw_value) ==
    /\ pc = "running"
    /\ Len(pairs) < MaxPairs
    /\ FloatOverflows(raw_value)
    /\ pc' = "aborted"
    /\ UNCHANGED <<config, _dict, _fuzzy, pairs, mappings, unmapped,
                   seen_canonical, report, raised, query, candidate, year_outputs,
                   call_arg, call_result>>

\* a variant of StrictRaises: warnings make a strict run raise as well
StrictRaisesOnWarnings(cfg, rep) ==
    cfg.strict_mode /\ (Len(rep.errors) > 0 \/ Len(rep.warnings) > 0)

\* whether _run raises RuntimeError for the output with this report
StrictRaises(cfg, rep) ==
    cfg.strict_mode /\ ~success(PipelineOutput(<<>>, <<>>, rep.errors, rep.warnings))

\* the input is exhausted: the validation pass, and _run returns or raises
FinishRun ==
    /\ pc = "running"
    /\ \E rep \in {validate(config, mappings)} :
           /\ report' = rep
           /\ pc' = IF StrictRaises(config, rep) THEN "raised" ELSE "returned"
    /\ UNCHANGED <<config, _dict, _fuzzy, pairs, mappings, unmapped,
                   seen_canonical, raised, query, candidate, year_outputs,
                   call_arg, call_result>>

Next ==
    \/ \E v \in Variants, c \in Targets : AddSynonym(v, c)
    \/ \E m \in BulkMappings : AddSynonyms(m)
    \/ StartRun
    \/ \E p \in RawPairs : MapPair(p[1], p[2])
    \/ \E p \in RawPairs : MapPairOverflows(p[1], p[2])
    \/ FinishRun

Spec == Init /\ [][Next]_vars

(***************************************************************************)
(* The fuzzy matcher on its own: FuzzyMatcher(config, extra_targets) and   *)
(* calls of match                                                          *)
(***************************************************************************)
FuzzyInit ==
    /\ config \in FuzzyConfigs
    /\ \E order \in SetOrders, extra \in ExtraTargets :
           _fuzzy = FuzzyMatcherInit(order, extra)
    /\ _dict = EmptyDict
    /\ pc = "ready"
    /\ NoRun
    /\ raised = FALSE
    /\ NoMatch
    /\ year_outputs = <<>>

\* FuzzyMatcher.match(label)
Match(label) ==
    /\ pc = "ready"
    /\ query' = label
    /\ candidate' = match(_fuzzy, config, label)
    /\ pc' = "matched"
    /\ UNCHANGED <<config, _dict, _fuzzy, pairs, mappings, unmapped,
                   seen_canonical, report, raised, year_outputs,
                   call_arg, call_result>>

FuzzyNext == \E label \in MatchLabels : Match(label)

FuzzySpec == FuzzyInit /\ [][FuzzyNext]_vars

(***************************************************************************)
(* The validator on its own: Validator(config) and a call of validate      *)
(***************************************************************************)
ValidatorInit ==
    /\ config \in ValidatorConfigs
    /\ mappings \in ListsUpTo(MappingChoices, MaxMappings)
    /\ _dict = EmptyDict
    /\ _fuzzy = FuzzyMatcherInit(CanonicalField, <<>>)
    /\ pc = "ready"
    /\ pairs = <<>>
    /\ unmapped = <<>>
    /\ seen_canonical = EmptyDict
    /\ report = ValidationReport(<<>>, <<>>)
    /\ raised = FALSE
    /\ NoMatch
    /\ year_outputs = <<>>

\* Validator.validate(mappings)
Validate ==
    /\ pc = "ready"
    /\ report' = validate(config, mappings)
    /\ pc' = "validated"
    /\ UNCHANGED <<config, _dict, _fuzzy, pairs, mappings, unmapped,
                   seen_canonical, raised, query, candidate, year_outputs,
                   call_arg, call_result>>

ValidatorNext == Validate

ValidatorSpec == ValidatorInit /\ [][ValidatorNext]_vars

(***************************************************************************)
(* map_excel in multi-year mode: one _run per year of the parsed result,   *)
(* on the same pipeline                                                    *)
(***************************************************************************)
\* the years of the parsed result, in the order of result.items()
Years == <<<<"F","Y","2","0","2","4">>, <<"F","Y","2","0","2","5">>>>

\* the pairs the per-year lists are made of
YearPairs ==
    { <<LabelNetProrth, Five>>, <<LabelNetWrth, FivePercent>>,
      <<LabelXyz, FivePercent>>, <<LabelSales, PyHugeInt>> }

YearConfigs ==
    {c \in Configs : /\ c.fuzzy_threshold = 80
                      /\ c.required_fields = <<>>
                      /\ ~c.error_on_duplicate}

YearsInit ==
    /\ config \in YearConfigs
    /\ _dict = SynonymMapperInit
    /\ \E order \in SetOrders : _fuzzy = FuzzyMatcherInit(order, <<>>)
    /\ pc = "ready"
    /\ NoRun
    /\ raised = FALSE
    /\ NoMatch
    /\ year_outputs = <<>>

\* the loop of map_excel reaches the next year: self._run(pairs) is entered
StartYear ==
    /\ pc = "ready"
    /\ Len(year_outputs) < Len(Years)
    /\ StartRun

\* year_outputs[year] = the output the year's _run returned
StoreYear ==
    /\ pc = "returned"
    /\ year_outputs' = Append(year_outputs,
                            [year |-> Years[Len(year_outputs) + 1],
                             output |-> Output])
    /\ pc' = "ready"
    /\ UNCHANGED <<config, _dict, _fuzzy, pairs, mappings, unmapped,
                   seen_canonical, report, raised, query, candidate,
                   call_arg, call_result>>

YearsNext ==
    \/ StartYear
    \/ \E p \in YearPairs : MapPair(p[1], p[2])
    \/ \E p \in YearPairs : MapPairOverflows(p[1], p[2])
    \/ FinishRun
    \/ StoreYear

YearsSpec == YearsInit /\ [][YearsNext]_vars

(***************************************************************************)
(* The extension API: calls of add_synonyms on one pipeline, and the runs  *)
(* between them                                                            *)
(***************************************************************************)
\* the variants the calls name; " PAT." normalizes to a built-in key
SynonymVariants == {LabelNetWrth, LabelXyz, LabelPat}

\* the canonical names the calls give: members as declared, members in
\* another case or with whitespace around, and names of no member
SynonymTargets ==
    {NET_SALES, <<"n","e","t"," ","p","r","o","f","i","t">>,
     <<" ","N","E","T"," ","W","O","R","T","H"," ">>,
     SHORT_TERM_BORROWINGS, <<"n","o","n","e">>}

\* the mappings add_synonyms is called with: those of BulkMappings, in which
\* an item raises, and one of two variants that normalize to the same key
SynonymBulkMappings ==
    BulkMappings \cup
        { << <<LabelXyz, NET_SALES>>,
             <<<<"X","Y","Z">>, <<"n","e","t"," ","p","r","o","f","i","t">>>> >> }

\* the pairs the runs between the calls are given
SynonymPairs == {<<LabelXyz, Five>>}

SynonymInit ==
    /\ config \in {c \in YearConfigs : ~c.strict_mode}
    /\ _dict = SynonymMapperInit
    /\ _fuzzy = FuzzyMatcherInit(CanonicalField, <<>>)
    /\ pc = "ready"
    /\ NoRun
    /\ raised = FALSE
    /\ NoMatch
    /\ year_outputs = <<>>

SynonymNext ==
    \/ \E v \in SynonymVariants, c \in SynonymTargets : AddSynonym(v, c)
    \/ \E m \in SynonymBulkMappings : AddSynonyms(m)
    \/ StartRun
    \/ \E p \in SynonymPairs : MapPair(p[1], p[2])
    \/ FinishRun

SynonymSpec == SynonymInit /\ [][SynonymNext]_vars

(***************************************************************************)
(* The LabelNormalizer on its own: calls of normalize_label and of         *)
(* normalize_value                                                         *)
(***************************************************************************)
EnDash == "U+2013"

EmDash == "U+2014"

\* the characters of the exhaustive part of the labels: whitespace, letters
\* of both cases, kept and stripped punctuation, the two dashes and the
\* characters of the literals of line 61
LabelAlphabet ==
    {" ", "\t", "A", "a", "-", "&", ".", "_", EnDash, EmDash,
     "U+00E2", "U+20AC", "U+201C", "U+201D"}

LongTermBorrowings(dash) ==
    <<"L","o","n","g">> \o dash \o <<"t","e","r","m"," ",
      "B","o","r","r","o","w","i","n","g","s">>

\* the labels normalize_label is called with
NormalizerLabels ==
    StringsUpTo(LabelAlphabet, MaxLabelLen)
        \cup {LongTermBorrowings(<<EnDash>>), LongTermBorrowings(<<EmDash>>),
              LongTermBorrowings(<<"-">>), LongTermBorrowings(EnDashLiteral),
              LongTermBorrowings(<<" ", EmDash, " ">>)}

\* the currency symbols: rupee, dollar, euro, pound, yen
Rupee == "U+20B9"

CurrencySymbols == {Rupee, "$", "U+20AC", "U+00A3", "U+00A5"}

\* numbers as financial statements write them
NumberStrings ==
    { <<"1","2",",","0","0","0">>, <<"1",",","2","3",",","4","5","6">>,
      <<"5","0","0","0">>, <<"1","2",".","5">>, <<"0">> }

\* a number prefixed by a currency symbol, bare or wrapped in parentheses
CurrencyStrings ==
    {<<c>> \o n : c \in CurrencySymbols, n \in NumberStrings}
        \cup {<<"(", c>> \o n \o <<")">> : c \in CurrencySymbols, n \in NumberStrings}

\* a number, bare, signed, prefixed or wrapped, with a trailing percent sign
PercentStrings ==
    {n \o <<"%">> : n \in NumberStrings}
        \cup {n \o <<" ", "%">> : n \in NumberStrings}
        \cup {<<"-">> \o n \o <<"%">> : n \in NumberStrings}
        \cup {<<"$">> \o n \o <<"%">> : n \in NumberStrings}
        \cup {<<"(">> \o n \o <<"%", ")">> : n \in NumberStrings}
        \cup {<<"(">> \o n \o <<")", "%">> : n \in NumberStrings}

\* the characters of the exhaustive part of the value strings
ValueAlphabet == {"$", Rupee, "1", "0", ",", ".", "(", ")", "%", "-", " "}

\* the values normalize_value is called with
NormalizerValues ==
    {PyStr(t) : t \in StringsUpTo(ValueAlphabet, MaxLabelLen)
                       \cup CurrencyStrings \cup PercentStrings \cup NumberStrings}
        \cup {PyNone, Five, PyFloat(125, 1), PyNaN, PyList}

NormalizerInit ==
    /\ config \in {c \in YearConfigs : ~c.strict_mode}
    /\ _dict = EmptyDict
    /\ _fuzzy = FuzzyMatcherInit(CanonicalField, <<>>)
    /\ pc = "ready"
    /\ NoRun
    /\ raised = FALSE
    /\ NoMatch
    /\ year_outputs = <<>>

\* LabelNormalizer.normalize_label(label)
NormalizeLabel(label) ==
    /\ pc = "ready"
    /\ call_arg' = label
    /\ call_result' = normalize_label(label)
    /\ pc' = "label"
    /\ UNCHANGED <<config, _dict, _fuzzy, pairs, mappings, unmapped,
                   seen_canonical, report, raised, query, candidate,
                   year_outputs>>

\* normalize_label called with what the call before returned; call_arg stays the
\* label the first call was given
NormalizeLabelAgain ==
    /\ pc = "label"
    /\ call_result' = normalize_label(call_result)
    /\ pc' = "relabel"
    /\ UNCHANGED <<config, _dict, _fuzzy, pairs, mappings, unmapped,
                   seen_canonical, report, raised, query, candidate,
                   year_outputs, call_arg>>

\* LabelNormalizer.normalize_value(value)
NormalizeValue(value) ==
    /\ pc = "ready"
    /\ call_arg' = value
    /\ call_result' = normalize_value(value)
    /\ pc' = "value"
    /\ UNCHANGED <<config, _dict, _fuzzy, pairs, mappings, unmapped,
                   seen_canonical, report, raised, query, candidate,
                   year_outputs>>

NormalizerNext ==
    \/ pc = "ready" /\ \E label \in NormalizerLabels : NormalizeLabel(label)
    \/ NormalizeLabelAgain
    \/ pc = "ready" /\ \E value \in NormalizerValues : NormalizeValue(value)

NormalizerSpec == NormalizerInit /\ [][NormalizerNext]_vars

(***************************************************************************)
(* excel_parser.py: year identifiers of header cells and of value columns. *)
(* A datetime cell is a value of type "datetime" whose num is the date as  *)
(* the number yyyymmdd.  A column index is 0-based, as in the code; the     *)
(* cell of column j of a row is row[j + 1].                                 *)
(***************************************************************************)
PyDateTime(y, m, d) ==
    [type |-> "datetime", fp |-> "", num |-> y * 10000 + m * 100 + d,
     dec |-> 0, text |-> <<>>]

\* str(n) of an int n >= 0
RECURSIVE IntToDigits(_)
IntToDigits(n) ==
    IF n < 10 THEN <<Digits[n + 1]>>
    ELSE IntToDigits(n \div 10) \o <<Digits[(n % 10) + 1]>>

\* the digits s zero-padded to width w, as %Y, %m and %d pad
RECURSIVE ZeroPad(_, _)
ZeroPad(s, w) == IF Len(s) >= w THEN s ELSE ZeroPad(<<"0">> \o s, w)

\* datetime.strftime("%Y-%m-%d")
StrfTime(cell) ==
    ZeroPad(IntToDigits(cell.num \div 10000), 4) \o <<"-">>
        \o ZeroPad(IntToDigits((cell.num \div 100) % 100), 2) \o <<"-">>
        \o ZeroPad(IntToDigits(cell.num % 100), 2)

\* int(cell) of a finite number: truncation toward zero
IntOf(cell) ==
    IF cell.num >= 0 THEN cell.num \div Pow10(cell.dec)
    ELSE -((-cell.num) \div Pow10(cell.dec))

\* low <= cell <= high for a number cell; a NaN compares false
NumberBetween(cell, low, high) ==
    /\ cell.fp = "finite"
    /\ low * Pow10(cell.dec) <= cell.num
    /\ cell.num <= high * Pow10(cell.dec)

\* the regex classes \d and \w, and the assertion \b before position i
IsDigit(c) == c \in Range(Digits)

IsWord(c) == c \in Range(Digits) \cup Range(UpperCase) \cup Range(LowerCase) \cup {"_"}

WordBoundary(text, i) ==
    (i > 1 /\ IsWord(text[i - 1])) # (i <= Len(text) /\ IsWord(text[i]))

AllDigits(text, from, to) == \A k \in from..to : IsDigit(text[k])

\* the least position of a set of match positions: where re.search matches
Leftmost(S) == CHOOSE i \in S : \A j \in S : i <= j

\* \b(\d{2})[-/](\d{2})[-/](\d{4})\b matches at position i
DayFirstDateAt(text, i) ==
    /\ i + 9 <= Len(text)
    /\ WordBoundary(text, i)
    /\ AllDigits(text, i, i + 1)
    /\ text[i + 2] \in {"-", "/"}
    /\ AllDigits(text, i + 3, i + 4)
    /\ text[i + 5] \in {"-", "/"}
    /\ AllDigits(text, i + 6, i + 9)
    /\ WordBoundary(text, i + 10)

\* \b(\d{4})[-/](\d{2})[-/](\d{2})\b matches at position i
YearFirstDateAt(text, i) ==
    /\ i + 9 <= Len(text)
    /\ WordBoundary(text, i)
    /\ AllDigits(text, i, i + 3)
    /\ text[i + 4] \in {"-", "/"}
    /\ AllDigits(text, i + 5, i + 6)
    /\ text[i + 7] \in {"-", "/"}
    /\ AllDigits(text, i + 8, i + 9)
    /\ WordBoundary(text, i + 10)

\* \b(20\d{2})\b matches at position i
BareYearAt(text, i) ==
    /\ i + 3 <= Len(text)
    /\ WordBoundary(text, i)
    /\ text[i] = "2"
    /\ text[i + 1] = "0"
    /\ AllDigits(text, i + 2, i + 3)
    /\ WordBoundary(text, i + 4)

\* the first position from i on that holds no whitespace
RECURSIVE SkipWhiteSpace(_, _)
SkipWhiteSpace(text, i) ==
    IF i <= Len(text) /\ text[i] \in WhiteSpace
    THEN SkipWhiteSpace(text, i + 1)
    ELSE i

\* FY\s*(\d{4}) with re.IGNORECASE matches at position i
FiscalYearAt(text, i) ==
    /\ i + 1 <= Len(text)
    /\ LowerChar(text[i]) = "f"
    /\ LowerChar(text[i + 1]) = "y"
    /\ SkipWhiteSpace(text, i + 2) + 3 <= Len(text)
    /\ AllDigits(text, SkipWhiteSpace(text, i + 2), SkipWhiteSpace(text, i + 2) + 3)

\* str.replace("/", "-")
SlashesToHyphens(s) == [k \in 1..Len(s) |-> IF s[k] = "/" THEN "-" ELSE s[k]]

\* the str branch of _extract_year_from_header, the patterns in the order
\* the code tries them
ExtractYearFromText(text) ==
    LET p1 == {i \in 1..Len(text) : DayFirstDateAt(text, i)}
        p2 == {i \in 1..Len(text) : YearFirstDateAt(text, i)}
        p3 == {i \in 1..Len(text) : BareYearAt(text, i)}
        p4 == {i \in 1..Len(text) : FiscalYearAt(text, i)}
    IN  IF p1 # {}
        THEN LET i == Leftmost(p1)
             IN  SubSeq(text, i + 6, i + 9) \o <<"-">> \o SubSeq(text, i + 3, i + 4)
                     \o <<"-">> \o SubSeq(text, i, i + 1)
        ELSE IF p2 # {}
        THEN SlashesToHyphens(SubSeq(text, Leftmost(p2), Leftmost(p2) + 9))
        ELSE IF p3 # {}
        THEN SubSeq(text, Leftmost(p3), Leftmost(p3) + 3)
        ELSE IF p4 # {}
        THEN LET j == SkipWhiteSpace(text, Leftmost(p4) + 2)
             IN  <<"F", "Y">> \o SubSeq(text, j, j + 3)
        ELSE None

\* _extract_year_from_header(cell), for a cell that is None, a str, a
\* datetime or a finite number
_extract_year_from_header(cell) ==
    IF cell.type = "datetime" THEN StrfTime(cell)
    ELSE IF cell.type \in {"int", "float"}
    THEN (IF 2000 <= IntOf(cell) /\ IntOf(cell) <= 2100
          THEN IntToDigits(IntOf(cell))
          ELSE None)
    ELSE IF cell.type = "str" THEN ExtractYearFromText(Strip(cell.text))
    ELSE None

\* whether float() accepts a str once _is_numeric, _is_label and _to_number
\* have cleaned it
CleanedParses(text) ==
    LET s == Strip(text)
        c == FilterSeq(s, Range(s) \ {",", Rupee, "$"})
        d == IF c # <<>> /\ c[1] = "(" /\ c[Len(c)] = ")"
             THEN SubSeq(c, 2, Len(c) - 1)
             ELSE c
    IN  ParseFloat(d) # PyNone

_is_numeric(val) ==
    \/ val.type \in {"int", "float"}
    \/ val.type = "str" /\ CleanedParses(val.text)

_is_label(val) ==
    val.type = "str" /\ Strip(val.text) # <<>> /\ ~CleanedParses(val.text)

\* str(c) of a cell that is a str, an int or a datetime
CellStr(c) ==
    IF c.type = "str" THEN c.text
    ELSE IF c.type = "datetime"
    THEN StrfTime(c) \o <<" ", "0", "0", ":", "0", "0", ":", "0", "0">>
    ELSE IF c.num < 0 THEN <<"-">> \o IntToDigits(-c.num)
    ELSE IntToDigits(c.num)

\* " ".join(str(c) for c in row if c is not None).lower()
RECURSIVE RowText(_)
RowText(row) ==
    IF row = <<>> THEN <<>>
    ELSE IF Head(row).type = "NoneType" THEN RowText(Tail(row))
    ELSE LET rest == RowText(Tail(row))
         IN  IF \A k \in 1..Len(Tail(row)) : Tail(row)[k].type = "NoneType"
             THEN Lower(CellStr(Head(row)))
             ELSE Lower(CellStr(Head(row))) \o <<" ">> \o rest

\* sub in text
Contains(text, sub) ==
    \E i \in 1..(Len(text) - Len(sub) + 1) : SubSeq(text, i, i + Len(sub) - 1) = sub

DrDot == <<"d", "r", ".">>

CrDot == <<"c", "r", ".">>

Particulars == <<"p","a","r","t","i","c","u","l","a","r","s">>

\* the T-account indicators of _detect_layout
IsTAccountRow(row) ==
    LET row_text == RowText(row)
    IN  \/ Contains(row_text, DrDot) /\ Contains(row_text, CrDot)
        \/ Contains(row_text, DrDot \o <<" ">> \o Particulars)
        \/ Contains(row_text, Particulars \o <<" ", "(">> \o DrDot \o <<")">>)

\* the columns of a row, in ascending order, that hold a datetime or a
\* number between 2000 and 2100
RECURSIVE DateCols(_, _)
DateCols(row, j) ==
    IF j >= Len(row) THEN <<>>
    ELSE IF row[j + 1].type = "datetime"
            \/ (row[j + 1].type \in {"int", "float"} /\ NumberBetween(row[j + 1], 2000, 2100))
    THEN <<j>> \o DateCols(row, j + 1)
    ELSE DateCols(row, j + 1)

max_cols(grid) ==
    IF grid = <<>> THEN 0
    ELSE CHOOSE n \in {Len(grid[i]) : i \in 1..Len(grid)} :
             \A i \in 1..Len(grid) : Len(grid[i]) <= n

\* the Schedule III branch of _detect_layout for header row i (0-based)
ScheduleIIILayout(grid, i) ==
    LET row == grid[i + 1]
        named == {j \in 0..(Len(row) - 1) :
                     /\ _is_label(row[j + 1])
                     /\ Lower(Strip(row[j + 1].text)) = Particulars}
    IN  [type |-> "schedule_iii",
         label_col |-> IF named = {} THEN 0 ELSE Leftmost(named),
         value_cols |-> DateCols(row, 0),
         header_row |-> i]

col_label_count(grid, j) ==
    Cardinality({i \in 1..Len(grid) : j < Len(grid[i]) /\ _is_label(grid[i][j + 1])})

col_num_count(grid, j) ==
    Cardinality({i \in 1..Len(grid) :
                    /\ j < Len(grid[i])
                    /\ ~_is_label(grid[i][j + 1])
                    /\ _is_numeric(grid[i][j + 1])})

\* the columns below n, in ascending order, that S holds
RECURSIVE AscendingFrom(_, _, _)
AscendingFrom(S, j, n) ==
    IF j >= n THEN <<>>
    ELSE IF j \in S THEN <<j>> \o AscendingFrom(S, j + 1, n)
    ELSE AscendingFrom(S, j + 1, n)

\* ExcelParser._detect_generic_columns
_detect_generic_columns(grid) ==
    LET n == max_cols(grid)
        most == {j \in 0..(n - 1) :
                    \A k \in 0..(n - 1) : col_label_count(grid, k) <= col_label_count(grid, j)}
        label_col == IF n = 0 THEN 0 ELSE Leftmost(most)
        numeric == {j \in 0..(n - 1) : col_num_count(grid, j) > 2 /\ j # label_col}
    IN  [type |-> "generic",
         label_col |-> label_col,
         value_cols |-> IF numeric # {} THEN AscendingFrom(numeric, 0, n)
                        ELSE IF label_col + 1 < n THEN <<label_col + 1>>
                        ELSE <<label_col>>]

\* grid[n:]
RowsFrom(grid, n) == SubSeq(grid, n + 1, Len(grid))

\* "Find pairs of (label_col, value_col)": the while loop from column j on;
\* a column counts as a label or a value column from least cells on
RECURSIVE ColumnGroups(_, _, _, _)
ColumnGroups(rows, n, least, j) ==
    IF j >= n - 1 THEN <<>>
    ELSE LET found == {k \in (j + 1)..(Min(j + 3, n) - 1) : col_num_count(rows, k) >= least}
         IN  IF col_label_count(rows, j) >= least /\ found # {}
             THEN << [label_col |-> j, value_col |-> Leftmost(found)] >>
                      \o ColumnGroups(rows, n, least, Leftmost(found) + 1)
             ELSE ColumnGroups(rows, n, least, j + 1)

\* ExcelParser._detect_t_account_columns: a column needs more than 2 cells
_detect_t_account_columns(grid) ==
    LET titled == {i \in 0..(Min(Len(grid), 10) - 1) :
                      /\ Contains(RowText(grid[i + 1]), Particulars)
                      /\ Contains(RowText(grid[i + 1]), <<"a","m","o","u","n","t">>)}
        header_row == IF titled = {} THEN 0 ELSE Leftmost(titled)
    IN  [type |-> "t_account",
         groups |-> ColumnGroups(RowsFrom(grid, header_row + 1), max_cols(grid), 3, 0),
         header_row |-> header_row]

\* ExcelParser._detect_layout
_detect_layout(grid) ==
    LET dated == {i \in 0..(Len(grid) - 1) : i < 5 /\ Len(DateCols(grid[i + 1], 0)) >= 1}
    IN  IF \E i \in 1..Len(grid) : i <= 10 /\ IsTAccountRow(grid[i])
        THEN _detect_t_account_columns(grid)
        ELSE IF dated # {} THEN ScheduleIIILayout(grid, Leftmost(dated))
        ELSE _detect_generic_columns(grid)

\* year_headers is a dict: its items in insertion order
HasColumn(year_headers, col_idx) ==
    \E k \in 1..Len(year_headers) : year_headers[k].col = col_idx

\* year_headers[col_idx] = year
SetYear(year_headers, col_idx, year) ==
    IF HasColumn(year_headers, col_idx)
    THEN [k \in 1..Len(year_headers) |->
             IF year_headers[k].col = col_idx
             THEN [col |-> col_idx, year |-> year]
             ELSE year_headers[k]]
    ELSE Append(year_headers, [col |-> col_idx, year |-> year])

\* the loop over value_cols for one row of the header scan
RECURSIVE ScanRow(_, _, _, _)
ScanRow(row, value_cols, k, year_headers) ==
    IF k > Len(value_cols) THEN year_headers
    ELSE IF value_cols[k] < Len(row) /\ ~HasColumn(year_headers, value_cols[k])
    THEN LET year == _extract_year_from_header(row[value_cols[k] + 1])
         IN  IF year # None /\ year # <<>>
             THEN ScanRow(row, value_cols, k + 1, SetYear(year_headers, value_cols[k], year))
             ELSE ScanRow(row, value_cols, k + 1, year_headers)
    ELSE ScanRow(row, value_cols, k + 1, year_headers)

\* the rows the scan visits, relative to the header row, in this order
RowOffsets == <<0, -1, 1, -2>>

\* the loop over the row offsets
RECURSIVE ScanRows(_, _, _, _, _)
ScanRows(grid, header_row_idx, value_cols, o, year_headers) ==
    IF o > Len(RowOffsets) THEN year_headers
    ELSE LET row_idx == header_row_idx + RowOffsets[o]
         IN  IF 0 <= row_idx /\ row_idx < Len(grid)
             THEN ScanRows(grid, header_row_idx, value_cols, o + 1,
                           ScanRow(grid[row_idx + 1], value_cols, 1, year_headers))
             ELSE ScanRows(grid, header_row_idx, value_cols, o + 1, year_headers)

YearWord == <<"Y", "e", "a", "r", " ">>

\* a variant of the default labels that numbers a column by its index in
\* the sheet
RECURSIVE DefaultYearHeadersByColumn(_, _, _)
DefaultYearHeadersByColumn(value_cols, i, year_headers) ==
    IF i > Len(value_cols) THEN year_headers
    ELSE DefaultYearHeadersByColumn(value_cols, i + 1,
             SetYear(year_headers, value_cols[i],
                     YearWord \o IntToDigits(value_cols[i])))

\* "If no years detected, create default labels": the loop from its i-th
\* round on; i counts from 1 where enumerate counts from 0
RECURSIVE DefaultYearHeaders(_, _, _)
DefaultYearHeaders(value_cols, i, year_headers) ==
    IF i > Len(value_cols) THEN year_headers
    ELSE DefaultYearHeaders(value_cols, i + 1,
             SetYear(year_headers, value_cols[i], YearWord \o IntToDigits(i)))

\* ExcelParser._extract_year_headers
_extract_year_headers(grid, layout) ==
    LET value_cols == IF "value_cols" \in DOMAIN layout THEN layout.value_cols ELSE <<>>
        header_row_idx == IF "header_row" \in DOMAIN layout THEN layout.header_row ELSE 0
        year_headers == ScanRows(grid, header_row_idx, value_cols, 1, <<>>)
    IN  IF year_headers = <<>>
        THEN DefaultYearHeaders(value_cols, 1, <<>>)
        ELSE year_headers

\* _parse_sheet_multi_year of a sheet with at least one row, up to the year
\* headers it parses the rows with: None where it takes the fallback
SheetYearHeaders(grid) ==
    LET layout == _detect_layout(grid)
    IN  [layout |-> layout,
         year_headers |-> IF layout.type \in {"schedule_iii", "generic"}
                             /\ "value_cols" \in DOMAIN layout
                          THEN _extract_year_headers(grid, layout)
                          ELSE None]

(***************************************************************************)
(* The year headers on their own: calls of _extract_year_from_header on a  *)
(* cell, and of _parse_sheet_multi_year on the grid of a sheet              *)
(***************************************************************************)
FiscalPrefixes == {<<"F","Y">>, <<"f","y">>, <<"F","y">>}

FourDigitYears ==
    { <<"2","0","2","5">>, <<"2","0","0","0">>, <<"2","0","9","9">>,
      <<"2","1","0","0">>, <<"1","9","9","9">>, <<"3","0","2","5">> }

\* FY, whitespace or none, and a 4-digit year
FiscalYearTexts ==
    {fy \o ws \o y : fy \in FiscalPrefixes,
                     ws \in StringsUpTo({" ", "\t"}, MaxLabelLen),
                     y \in FourDigitYears}

\* other texts a header cell holds
OtherHeaderTexts ==
    { <<>>, <<"F","Y">>, <<"S","a","l","e","s">>, <<"2","0","2","5">>,
      <<" ","F","Y"," ","2","0","2","5"," ">>,
      <<"F","Y","2","0","2","5","-","2","6">>,
      <<"F","Y"," ","2","0","2","5","-","2","6">>,
      <<"F","Y","_","2","0","2","5">>,
      <<"F","Y"," ","2","0","2","5","5">>,
      <<"Y","e","a","r"," ","2","0","2","5">>,
      <<"3","1","-","0","3","-","2","0","2","5">>,
      <<"3","1","/","0","3","/","2","0","2","5">>,
      <<"2","0","2","5","-","0","3","-","3","1">>,
      <<"2","0","2","5","/","0","3","/","3","1">>,
      <<"M","a","r","-","2","5">> }

\* the cells _extract_year_from_header is called with
HeaderCells ==
    {PyStr(t) : t \in FiscalYearTexts \cup OtherHeaderTexts}
        \cup {PyNone, Five, PyInt(2025), PyInt(1999), PyInt(2100), PyInt(2101),
              PyFloat(20255, 1), PyDateTime(2025, 3, 31)}

SalesCell == PyStr(LabelSales)

FiscalCell == PyStr(<<"F","Y","2","0","2","5">>)

ParticularsCell == PyStr(<<"P","a","r","t","i","c","u","l","a","r","s">>)

DrParticularsCell ==
    PyStr(<<"D","r","."," ","P","a","r","t","i","c","u","l","a","r","s">>)

\* what the cells of the two value columns hold in the first rows of a sheet
ValueColumnCells == {PyNone, Five, FiscalCell, PyInt(2025)}

\* the first rows of a sheet: a label and two cells
HeaderRows ==
    {<<a, b, c>> : a \in {ParticularsCell, DrParticularsCell},
                   b \in ValueColumnCells, c \in ValueColumnCells}

SecondRows ==
    {<<SalesCell, b, c>> : b \in ValueColumnCells, c \in ValueColumnCells}

\* the rows of figures below them
DataRows ==
    { <<SalesCell, Five, Five>>, <<SalesCell, Five, PyNone>>,
      <<SalesCell, PyNone, Five>>, <<SalesCell, PyNone, PyNone>> }

MaxDataRows == 3

\* the grids of the sheets: one or two first rows and up to MaxDataRows equal
\* rows of figures; every row has the width of the sheet
Grids ==
    {top \o [i \in 1..n |-> d] :
        top \in {<<h>> : h \in HeaderRows}
                    \cup {<<h, s>> : h \in HeaderRows, s \in SecondRows},
        n \in 0..MaxDataRows,
        d \in DataRows}

HeaderInit ==
    /\ config \in {c \in YearConfigs : ~c.strict_mode}
    /\ _dict = EmptyDict
    /\ _fuzzy = FuzzyMatcherInit(CanonicalField, <<>>)
    /\ pc = "ready"
    /\ NoRun
    /\ raised = FALSE
    /\ NoMatch
    /\ year_outputs = <<>>

\* _extract_year_from_header(cell)
ExtractYear(cell) ==
    /\ pc = "ready"
    /\ call_arg' = cell
    /\ call_result' = _extract_year_from_header(cell)
    /\ pc' = "year"
    /\ UNCHANGED <<config, _dict, _fuzzy, pairs, mappings, unmapped,
                   seen_canonical, report, raised, query, candidate,
                   year_outputs>>

\* _parse_sheet_multi_year of the sheet whose cells are grid, up to the year
\* headers
ExtractYearHeaders(grid) ==
    /\ pc = "ready"
    /\ call_arg' = grid
    /\ call_result' = SheetYearHeaders(grid)
    /\ pc' = "headers"
    /\ UNCHANGED <<config, _dict, _fuzzy, pairs, mappings, unmapped,
                   seen_canonical, report, raised, query, candidate,
                   year_outputs>>

HeaderNext ==
    \/ pc = "ready" /\ \E cell \in HeaderCells : ExtractYear(cell)
    \/ pc = "ready" /\ \E grid \in Grids : ExtractYearHeaders(grid)

HeaderSpec == HeaderInit /\ [][HeaderNext]_vars

(***************************************************************************)
(* excel_parser.py: the labels and figures of a row                        *)
(***************************************************************************)
\* str.upper(), one character
UpperChar(c) ==
    IF c \in Range(LowerCase)
    THEN UpperCase[CHOOSE i \in 1..26 : LowerCase[i] = c]
    ELSE c

Upper(s) == [i \in 1..Len(s) |-> UpperChar(s[i])]

\* how many characters at the start of s are in class
RECURSIVE LeadingRun(_, _)
LeadingRun(s, class) ==
    IF s # <<>> /\ Head(s) \in class THEN 1 + LeadingRun(Tail(s), class) ELSE 0

\* s[n:]
Drop(s, n) == SubSeq(s, n + 1, Len(s))

\* the alternatives of the third of _HEADER_PATTERNS
HeaderWords ==
    { <<"s","t","a","t","e","m","e","n","t"," ","o","f">>, <<"b","a","l","a","n","c","e"," ","s","h","e","e","t">>, <<"p","r","o","f","i","t"," ","a","n","d"," ","l","o","s","s">>, <<"t","r","a","d","i","n","g"," ","a","c","c","o","u","n","t">>,
      <<"f","o","r"," ","t","h","e"," ","y","e","a","r">>, <<"a","s"," ","p","e","r"," ","s","c","h","e","d","u","l","e">>, <<"p","a","r","t","i","c","u","l","a","r","s">>, <<"d","r",".">>, <<"c","r",".">>,
      <<"e","q","u","i","t","y"," ","a","n","d"," ","l","i","a","b","i","l","i","t","i","e","s">>, <<"a","s","s","e","t","s">>, <<"e","x","p","e","n","s","e","s">>, <<"r","a","t","i","o","s">> }

\* ^(i+\.|iv\.|v\.)\s , ignoring case
RomanHeading(s) ==
    LET t == Lower(s)
        n == LeadingRun(t, {"i"})
    IN  \/ n >= 1 /\ Len(t) >= n + 2 /\ t[n + 1] = "." /\ t[n + 2] \in WhiteSpace
        \/ IsPrefix(<<"i","v",".">>, t) /\ Len(t) >= 4 /\ t[4] \in WhiteSpace
        \/ IsPrefix(<<"v",".">>, t) /\ Len(t) >= 3 /\ t[3] \in WhiteSpace

\* ^\d+\)\s
NumberedHeading(s) ==
    LET n == LeadingRun(s, Range(Digits))
    IN  n >= 1 /\ Len(s) >= n + 2 /\ s[n + 1] = ")" /\ s[n + 2] \in WhiteSpace

_is_section_header(text) ==
    LET stripped == Strip(text)
    IN  \/ stripped = <<>>
        \/ RomanHeading(stripped)
        \/ NumberedHeading(stripped)
        \/ \E word \in HeaderWords : IsPrefix(word, Lower(stripped))

\* _SKIP_PATTERNS: ^(note no|notes?)$ , ignoring case
_should_skip(text) == Lower(Strip(text)) \in {<<"n","o","t","e"," ","n","o">>, <<"n","o","t","e">>, <<"n","o","t","e","s">>}

RECURSIVE RStripColons(_)
RStripColons(s) ==
    IF s # <<>> /\ s[Len(s)] = ":" THEN RStripColons(SubSeq(s, 1, Len(s) - 1)) ELSE s

\* re.sub(r"^[IVXLC]+\.\s*", "", s, flags=re.IGNORECASE)
DropRoman(s) ==
    LET n == LeadingRun(Lower(s), {"i", "v", "x", "l", "c"})
    IN  IF n >= 1 /\ Len(s) > n /\ s[n + 1] = "." THEN LStrip(Drop(s, n + 1)) ELSE s

\* re.sub(r"^\d+[\.\)]\s*", "", s)
DropNumber(s) ==
    LET n == LeadingRun(s, Range(Digits))
    IN  IF n >= 1 /\ Len(s) > n /\ s[n + 1] \in {".", ")"} THEN LStrip(Drop(s, n + 1)) ELSE s

\* re.sub(r"^[a-f]\)\s*", "", s, flags=re.IGNORECASE)
DropLetter(s) ==
    IF Len(s) >= 2 /\ LowerChar(s[1]) \in {"a", "b", "c", "d", "e", "f"} /\ s[2] = ")"
    THEN LStrip(Drop(s, 2))
    ELSE s

\* re.sub(r"^(to|by)\s+", "", s, flags=re.IGNORECASE)
DropToBy(s) ==
    IF Len(s) >= 3 /\ Lower(SubSeq(s, 1, 2)) \in {<<"t","o">>, <<"b","y">>}
       /\ s[3] \in WhiteSpace
    THEN LStrip(Drop(s, 2))
    ELSE s

_clean_label(text) ==
    Strip(RStripColons(Strip(DropToBy(DropLetter(DropNumber(DropRoman(Strip(text))))))))

\* the float of a str from which the currency signs are gone: in
\* parentheses it is negative; PyNone for ValueError
CleanedNumber(c) ==
    IF c # <<>> /\ c[1] = "(" /\ c[Len(c)] = ")"
    THEN Negate(ParseFloat(SubSeq(c, 2, Len(c) - 1)))
    ELSE ParseFloat(c)

\* _to_number(val): the float, or PyNone for None
_to_number(val) ==
    IF val.type \in {"int", "float"} THEN [val EXCEPT !.type = "float"]
    ELSE IF val.type = "str"
    THEN CleanedNumber(FilterSeq(Strip(val.text), Range(val.text) \ {",", Rupee, "$"}))
    ELSE PyNone

\* row[col] if col < len(row) else None
CellAt(row, col) == IF col < Len(row) THEN row[col + 1] ELSE PyNone

\* num != 0
NonZero(num) == num.fp # "finite" \/ num.num # 0

\* what a parse function gives its caller: the value it returns, or the
\* exception that leaves it
Returned(value) == [exc |-> "", value |-> value]

Raised(exc) == [exc |-> exc, value |-> <<>>]

\* the pair the loops of _parse_generic and _parse_t_account append for a
\* cleaned label and a number, as a list of no or one pair; drop_zero is
\* the "num != 0" of the T-account loops
CleanedPair(cleaned, num, drop_zero) ==
    IF cleaned # <<>> /\ ~_is_section_header(cleaned) /\ ~_should_skip(cleaned)
       /\ num # PyNone /\ (drop_zero => NonZero(num))
    THEN << <<cleaned, num>> >>
    ELSE <<>>

\* the same for a label cell and a value cell that passed _is_label and
\* _is_numeric
LabelledPair(raw_label, raw_value, drop_zero) ==
    CleanedPair(_clean_label(Strip(raw_label.text)), _to_number(raw_value), drop_zero)

(***************************************************************************)
(* excel_parser.py: the single-year parse of a sheet                       *)
(***************************************************************************)
\* the loop of _parse_generic from row i (0-based) on
RECURSIVE GenericRows(_, _, _, _)
GenericRows(grid, label_col, val_col, i) ==
    IF i >= Len(grid) THEN <<>>
    ELSE LET raw_label == CellAt(grid[i + 1], label_col)
             raw_value == CellAt(grid[i + 1], val_col)
         IN  (IF _is_label(raw_label) /\ _is_numeric(raw_value)
              THEN LabelledPair(raw_label, raw_value, FALSE)
              ELSE <<>>) \o GenericRows(grid, label_col, val_col, i + 1)

\* ExcelParser._parse_generic.  "self.year_index < len(value_cols)" raises
\* TypeError when year_index is None.
_parse_generic(grid, layout, year_index) ==
    LET value_cols == layout.value_cols
        val_col == IF year_index.num < Len(value_cols) THEN value_cols[year_index.num + 1]
                   ELSE IF value_cols # <<>> THEN value_cols[1]
                   ELSE 1
    IN  IF year_index.type = "NoneType" THEN Raised("TypeError")
        ELSE Returned(GenericRows(grid, layout.label_col, val_col, 0))

\* the offsets _parse_schedule_iii probes around the value column
ScheduleIIIOffsets == <<1, -1, 2>>

\* the offsets _parse_schedule_iii_multi_year probes around a year's column
MultiYearOffsets == <<1, -1>>

\* "Try adjacent columns": the cell at col when it is numeric, else the first
\* numeric cell at one of the offsets that is inside the row and is not the
\* label column, else the cell at col
AdjacentValue(row, col, label_col, offsets) ==
    LET hits == {k \in 1..Len(offsets) :
                    /\ 0 <= col + offsets[k]
                    /\ col + offsets[k] < Len(row)
                    /\ col + offsets[k] # label_col
                    /\ _is_numeric(row[col + offsets[k] + 1])}
    IN  IF _is_numeric(CellAt(row, col)) \/ hits = {} THEN CellAt(row, col)
        ELSE row[col + offsets[Leftmost(hits)] + 1]

\* the titles whose row makes _parse_schedule_iii look for a new header
SectionTitles == { <<"B","A","L","A","N","C","E"," ","S","H","E","E","T">>, <<"E","Q","U","I","T","Y"," ","A","N","D"," ","L","I","A","B","I","L","I","T","I","E","S">>, <<"A","S","S","E","T","S">> }

\* the value column _parse_schedule_iii goes on with after row i, whose
\* label cell raw_label is not a label
SectionValueColumn(grid, year_index, i, raw_label, current_val_col) ==
    LET dated == {k \in i..(Min(i + 5, Len(grid)) - 1) : DateCols(grid[k + 1], 0) # <<>>}
        new_val_cols == DateCols(grid[Leftmost(dated) + 1], 0)
    IN  IF /\ raw_label.type = "str"
           /\ raw_label.text # <<>>
           /\ \E title \in SectionTitles : Contains(Upper(Strip(raw_label.text)), title)
           /\ dated # {}
        THEN new_val_cols[Min(year_index.num, Len(new_val_cols) - 1) + 1]
        ELSE current_val_col

\* the pair the statutory loops append for a cleaned label and the cell they
\* settled on, as a list of no or one pair
StatutoryPair(cleaned, value) ==
    IF _is_numeric(value) /\ cleaned # <<>> /\ ~_is_section_header(cleaned)
       /\ _to_number(value) # PyNone
    THEN << <<cleaned, _to_number(value)>> >>
    ELSE <<>>

\* what _parse_schedule_iii appends for a row whose label cell is a label
\* that _should_skip lets through
ScheduleIIIRow(row, label_col, current_val_col) ==
    StatutoryPair(_clean_label(Strip(CellAt(row, label_col).text)),
                  AdjacentValue(row, current_val_col, label_col, ScheduleIIIOffsets))

\* the loop of _parse_schedule_iii from row i (0-based) on
RECURSIVE ScheduleIIIRows(_, _, _, _, _)
ScheduleIIIRows(grid, layout, year_index, i, current_val_col) ==
    IF i >= Len(grid) THEN <<>>
    ELSE LET raw_label == CellAt(grid[i + 1], layout.label_col)
         IN  IF i <= layout.header_row
             THEN ScheduleIIIRows(grid, layout, year_index, i + 1, current_val_col)
             ELSE IF ~_is_label(raw_label)
             THEN ScheduleIIIRows(grid, layout, year_index, i + 1,
                      SectionValueColumn(grid, year_index, i, raw_label, current_val_col))
             ELSE IF _should_skip(Strip(raw_label.text))
             THEN ScheduleIIIRows(grid, layout, year_index, i + 1, current_val_col)
             ELSE ScheduleIIIRow(grid[i + 1], layout.label_col, current_val_col)
                      \o ScheduleIIIRows(grid, layout, year_index, i + 1, current_val_col)

\* ExcelParser._parse_schedule_iii
_parse_schedule_iii(grid, layout, year_index) ==
    LET value_cols == layout.value_cols
        val_col == IF year_index.num < Len(value_cols) THEN value_cols[year_index.num + 1]
                   ELSE IF value_cols # <<>> THEN value_cols[1]
                   ELSE layout.label_col + 1
    IN  IF year_index.type = "NoneType" THEN Raised("TypeError")
        ELSE Returned(ScheduleIIIRows(grid, layout, year_index, 0, val_col))

\* " ".join(str(c) for c in row if c is not None)
RECURSIVE RowJoin(_)
RowJoin(row) ==
    IF row = <<>> THEN <<>>
    ELSE IF Head(row).type = "NoneType" THEN RowJoin(Tail(row))
    ELSE IF \A k \in 1..Len(Tail(row)) : Tail(row)[k].type = "NoneType"
    THEN CellStr(Head(row))
    ELSE CellStr(Head(row)) \o <<" ">> \o RowJoin(Tail(row))

\* "if text_lower == 'total': continue" of the balance sheet loop
UnlessTotal(pair, skip_total) ==
    IF skip_total /\ pair # <<>> /\ Lower(pair[1][1]) = <<"t","o","t","a","l">>
    THEN <<>>
    ELSE pair

\* what the loops of _parse_t_account and _parse_balance_sheet_section append
\* for one row: a pair for each group with a label and a figure
RECURSIVE GroupPairs(_, _, _, _)
GroupPairs(row, groups, g, skip_total) ==
    IF g > Len(groups) THEN <<>>
    ELSE UnlessTotal(
             IF _is_label(CellAt(row, groups[g].label_col))
                /\ _is_numeric(CellAt(row, groups[g].value_col))
             THEN LabelledPair(CellAt(row, groups[g].label_col),
                               CellAt(row, groups[g].value_col), TRUE)
             ELSE <<>>,
             skip_total) \o GroupPairs(row, groups, g + 1, skip_total)

\* the rows of grid from row i (0-based) on, each read with GroupPairs
RECURSIVE GroupRows(_, _, _, _)
GroupRows(grid, groups, i, skip_total) ==
    IF i >= Len(grid) THEN <<>>
    ELSE GroupPairs(grid[i + 1], groups, 1, skip_total)
             \o GroupRows(grid, groups, i + 1, skip_total)

\* ExcelParser._parse_balance_sheet_section: a column needs 2 cells
_parse_balance_sheet_section(grid, start_row) ==
    LET bs_grid == RowsFrom(grid, start_row)
        groups == ColumnGroups(bs_grid, max_cols(bs_grid), 2, 0)
        titled == {i \in 1..(Min(Len(bs_grid), 5) - 1) :
                      \/ Contains(RowText(bs_grid[i + 1]), <<"a","m","o","u","n","t">>)
                      \/ Contains(RowText(bs_grid[i + 1]), <<"l","i","a","b","i","l","i","t","i","e","s">>)}
        data_start == IF titled = {} THEN 2 ELSE Leftmost(titled) + 1
    IN  GroupRows(bs_grid, groups, data_start, TRUE)

\* ExcelParser._parse_t_account
_parse_t_account(grid, layout, year_index) ==
    LET titled == {i \in 0..(Len(grid) - 1) :
                      Contains(Upper(RowJoin(grid[i + 1])), <<"B","A","L","A","N","C","E"," ","S","H","E","E","T">>)}
    IN  IF layout.groups = <<>>
        THEN _parse_generic(grid, _detect_generic_columns(grid), year_index)
        ELSE Returned(GroupRows(grid, layout.groups, layout.header_row + 1, FALSE)
                 \o (IF titled = {} THEN <<>>
                     ELSE _parse_balance_sheet_section(grid, Leftmost(titled))))

\* ExcelParser._parse_sheet_legacy, and _parse_sheet from the layout on
_parse_sheet_legacy(grid, layout, year_index) ==
    IF layout.type = "t_account" THEN _parse_t_account(grid, layout, year_index)
    ELSE IF layout.type = "schedule_iii" THEN _parse_schedule_iii(grid, layout, year_index)
    ELSE _parse_generic(grid, layout, year_index)

(***************************************************************************)
(* excel_parser.py: the parse of a sheet for all years, and parse_file     *)
(***************************************************************************)
\* a dict from year to pairs is the list of its items in insertion order
HasYear(year_data, year) == \E k \in 1..Len(year_data) : year_data[k].year = year

\* year_data[year]
PairsOf(year_data, year) ==
    year_data[CHOOSE k \in 1..Len(year_data) : year_data[k].year = year].pairs

\* {year: [] for year in year_headers.values()}: the years from entry k on
RECURSIVE EmptyYearData(_, _, _)
EmptyYearData(year_headers, k, year_data) ==
    IF k > Len(year_headers) THEN year_data
    ELSE IF HasYear(year_data, year_headers[k].year)
    THEN EmptyYearData(year_headers, k + 1, year_data)
    ELSE EmptyYearData(year_headers, k + 1,
             Append(year_data, [year |-> year_headers[k].year, pairs |-> <<>>]))

\* the label _parse_schedule_iii_multi_year and _parse_generic_multi_year
\* read the figures of a row under: <<>> for a row they pass over
RowLabel(row, label_col) ==
    LET raw_label == CellAt(row, label_col)
        cleaned == _clean_label(Strip(raw_label.text))
    IN  IF _is_label(raw_label) /\ ~_should_skip(Strip(raw_label.text))
           /\ ~_is_section_header(cleaned)
        THEN cleaned
        ELSE <<>>

\* "Extract values for each year column": what one row appends to the list
\* of year, from entry k of year_headers on
RECURSIVE YearRowPairs(_, _, _, _, _, _, _)
YearRowPairs(row, cleaned, label_col, offsets, year_headers, year, k) ==
    IF k > Len(year_headers) THEN <<>>
    ELSE (IF year_headers[k].year = year
          THEN StatutoryPair(cleaned,
                   AdjacentValue(row, year_headers[k].col, label_col, offsets))
          ELSE <<>>)
             \o YearRowPairs(row, cleaned, label_col, offsets, year_headers, year, k + 1)

\* the list of year after the rows of grid from row i (0-based) on
RECURSIVE YearColumnPairs(_, _, _, _, _, _)
YearColumnPairs(grid, label_col, offsets, year_headers, year, i) ==
    IF i >= Len(grid) THEN <<>>
    ELSE YearRowPairs(grid[i + 1], RowLabel(grid[i + 1], label_col), label_col,
                      offsets, year_headers, year, 1)
             \o YearColumnPairs(grid, label_col, offsets, year_headers, year, i + 1)

\* the year_data a multi-year parse returns: its rows start at first_row
YearData(grid, label_col, offsets, year_headers, first_row) ==
    LET years == EmptyYearData(year_headers, 1, <<>>)
    IN  [k \in 1..Len(years) |->
            [year |-> years[k].year,
             pairs |-> YearColumnPairs(grid, label_col, offsets, year_headers,
                                 years[k].year, first_row)]]

\* ExcelParser._parse_schedule_iii_multi_year
_parse_schedule_iii_multi_year(grid, layout, year_headers) ==
    YearData(grid, layout.label_col, MultiYearOffsets, year_headers, layout.header_row + 1)

\* ExcelParser._parse_generic_multi_year
_parse_generic_multi_year(grid, layout, year_headers) ==
    YearData(grid, layout.label_col, <<>>, year_headers, 0)

UnknownYear == <<"U","n","k","n","o","w","n"," ","Y","e","a","r">>

\* return {"Unknown Year": pairs}, unless the single-year parse raised
UnknownYearData(legacy) ==
    IF legacy.exc # "" THEN legacy
    ELSE Returned(<< [year |-> UnknownYear, pairs |-> legacy.value] >>)

\* _parse_sheet_multi_year from the layout on
ParseLayoutAllYears(grid, layout, year_index) ==
    IF layout.type = "schedule_iii" /\ layout.value_cols # <<>>
    THEN Returned(_parse_schedule_iii_multi_year(grid, layout,
                      _extract_year_headers(grid, layout)))
    ELSE IF layout.type = "generic" /\ layout.value_cols # <<>>
    THEN Returned(_parse_generic_multi_year(grid, layout,
                      _extract_year_headers(grid, layout)))
    ELSE UnknownYearData(_parse_sheet_legacy(grid, layout, year_index))

\* ExcelParser._parse_sheet_multi_year
_parse_sheet_multi_year(grid, year_index) ==
    IF grid = <<>> THEN Returned(<<>>)
    ELSE ParseLayoutAllYears(grid, _detect_layout(grid), year_index)

\* ExcelParser._parse_sheet
_parse_sheet(grid, year_index) ==
    IF grid = <<>> THEN Returned(<<>>)
    ELSE _parse_sheet_legacy(grid, _detect_layout(grid), year_index)

\* key = label.strip().lower()
LabelKey(label) == Lower(Strip(label))

\* the "Deduplicate" loop of the single-year mode from pair i on
RECURSIVE Deduplicate(_, _, _, _)
Deduplicate(all_pairs, i, seen, deduped) ==
    IF i > Len(all_pairs) THEN deduped
    ELSE Deduplicate(all_pairs, i + 1,
             DictSet(seen, LabelKey(all_pairs[i][1]), all_pairs[i][2]),
             Append(deduped, all_pairs[i]))

\* the "Deduplicate within each year" loop from pair i on
RECURSIVE DeduplicateYear(_, _, _, _)
DeduplicateYear(year_pairs, i, seen, deduped) ==
    IF i > Len(year_pairs) THEN deduped
    ELSE IF LabelKey(year_pairs[i][1]) \notin DOMAIN seen
    THEN DeduplicateYear(year_pairs, i + 1,
             DictSet(seen, LabelKey(year_pairs[i][1]), year_pairs[i][2]),
             Append(deduped, year_pairs[i]))
    ELSE DeduplicateYear(year_pairs, i + 1, seen, deduped)

\* year_data[year].extend(pairs) for the items of sheet_year_data from k on
RECURSIVE MergeYears(_, _, _)
MergeYears(year_data, sheet_year_data, k) ==
    IF k > Len(sheet_year_data) THEN year_data
    ELSE LET item == sheet_year_data[k]
         IN  MergeYears(
                 IF HasYear(year_data, item.year)
                 THEN [j \in 1..Len(year_data) |->
                          IF year_data[j].year = item.year
                          THEN [year |-> item.year, pairs |-> year_data[j].pairs \o item.pairs]
                          ELSE year_data[j]]
                 ELSE Append(year_data, item),
                 sheet_year_data, k + 1)

\* all_pairs.extend(pairs), unless the parse of a sheet raised
ExtendPairs(first, rest) ==
    IF first.exc # "" THEN first
    ELSE IF rest.exc # "" THEN rest
    ELSE Returned(first.value \o rest.value)

\* the loop of parse_file over the sheets from sheet s on, single-year mode
RECURSIVE SheetPairs(_, _, _)
SheetPairs(workbook, year_index, s) ==
    IF s > Len(workbook) THEN Returned(<<>>)
    ELSE ExtendPairs(_parse_sheet(workbook[s], year_index),
                     SheetPairs(workbook, year_index, s + 1))

\* "Merge data from this sheet into year_data", unless its parse raised
MergedYears(year_data, sheet_year_data) ==
    IF sheet_year_data.exc # "" THEN sheet_year_data
    ELSE Returned(MergeYears(year_data, sheet_year_data.value, 1))

\* the loop of parse_file over the sheets from sheet s on, all years
RECURSIVE SheetYears(_, _, _, _)
SheetYears(workbook, year_index, s, year_data) ==
    IF s > Len(workbook) \/ year_data.exc # "" THEN year_data
    ELSE SheetYears(workbook, year_index, s + 1,
             MergedYears(year_data.value,
                         _parse_sheet_multi_year(workbook[s], year_index)))

\* parse_file after the loop over its sheets: the single-year mode returns
\* every pair, the all-years mode the first pair of each label of a year
DeduplicatedSheets(year_index, all_pairs, year_data) ==
    IF year_index.type # "NoneType"
    THEN (IF all_pairs.exc # "" THEN all_pairs
          ELSE Returned(Deduplicate(all_pairs.value, 1, EmptyDict, <<>>)))
    ELSE IF year_data.exc # "" THEN year_data
    ELSE Returned([k \in 1..Len(year_data.value) |->
             [year |-> year_data.value[k].year,
              pairs |-> DeduplicateYear(year_data.value[k].pairs, 1, EmptyDict, <<>>)]])

\* ExcelParser(year_index).parse_file of a workbook with these sheets
parse_file(workbook, year_index) ==
    DeduplicatedSheets(year_index, SheetPairs(workbook, year_index, 1),
                       SheetYears(workbook, year_index, 1, Returned(<<>>)))

(***************************************************************************)
(* Workbooks: calls of ExcelParser(year_index).parse_file                  *)
(***************************************************************************)
Seven == PyInt(7)

Nine == PyInt(9)

UpperSalesCell == PyStr(<<"S","A","L","E","S">>)

CashCell == PyStr(<<"1","."," ","C","a","s","h",":">>)

BalanceSheetCell == PyStr(<<"B","A","L","A","N","C","E"," ","S","H","E","E","T">>)

AmountCell == PyStr(<<"A","m","o","u","n","t">>)

CrParticularsCell == PyStr(<<"C","r","."," ","P","a","r","t","i","c","u","l","a","r","s">>)

ToPurchasesCell == PyStr(<<"T","o"," ","P","u","r","c","h","a","s","e","s">>)

BySalesCell == PyStr(<<"B","y"," ","S","a","l","e","s">>)

ToWagesCell == PyStr(<<"T","o"," ","W","a","g","e","s">>)

LiabilitiesCell == PyStr(<<"L","i","a","b","i","l","i","t","i","e","s">>)

AssetsCell == PyStr(<<"A","s","s","e","t","s">>)

CapitalCell == PyStr(<<"C","a","p","i","t","a","l">>)

BankCell == PyStr(<<"B","a","n","k">>)

TotalCell == PyStr(<<"T","o","t","a","l">>)

\* what the two cells right of "Particulars" hold in the first row
YearCells == {PyNone, FiscalCell, PyInt(2025), PyInt(2026)}

\* the rows below the first row of a sheet with one label column: figures
\* in both columns or in the second only, a label that differs in case, a
\* section title with a year beside it, a numbered label
SheetRows ==
    { <<SalesCell, Five, Seven>>,
      <<SalesCell, PyNone, Seven>>,
      <<UpperSalesCell, Nine, PyNone>>,
      <<BalanceSheetCell, PyNone, PyInt(2026)>>,
      <<CashCell, Five, Nine>> }

\* sheets with one label column and two columns of figures
ColumnSheets ==
    {<<<<ParticularsCell, b, c>>>> \o rows :
        b \in YearCells, c \in YearCells, rows \in ListsUpTo(SheetRows, MaxDataRows)}

\* the rows of the two sides of a ledger: a zero figure on the left
LedgerRows ==
    { <<ToPurchasesCell, Five, BySalesCell, Seven>>,
      <<ToWagesCell, PyInt(0), BySalesCell, Nine>> }

\* the first row of a ledger sheet, with and without years in it
LedgerHeaders ==
    { <<DrParticularsCell, AmountCell, CrParticularsCell, AmountCell>>,
      <<DrParticularsCell, PyInt(2025), CrParticularsCell, PyInt(2026)>> }

\* the balance sheet below a ledger: its title, its column titles, rows with
\* a liability and an asset, and its totals
BalanceSheets ==
    {<<>>} \cup
    {<< <<BalanceSheetCell, PyNone, PyNone, PyNone>>,
        <<LiabilitiesCell, AmountCell, AssetsCell, AmountCell>> >>
         \o [i \in 1..n |-> <<CapitalCell, Nine, BankCell, Nine>>] \o totals :
        n \in 0..MaxDataRows,
        totals \in {<<>>, << <<TotalCell, Nine, TotalCell, Nine>> >>}}

\* sheets with the two sides of a ledger
LedgerSheets ==
    {<<h>> \o rows \o bs :
        h \in LedgerHeaders, rows \in ListsUpTo(LedgerRows, MaxDataRows),
        bs \in BalanceSheets}

\* the sheets of the workbooks with two sheets
PairedSheets ==
    {<< <<ParticularsCell, PyInt(2025), c>>, r >> : c \in {PyNone, PyInt(2026)}, r \in SheetRows}
        \cup {<<h>> \o rows : h \in LedgerHeaders, rows \in ListsUpTo(LedgerRows, 1)}

Workbooks ==
    {<<s>> : s \in ColumnSheets \cup LedgerSheets \cup {<<>>}}
        \cup {<<s, t>> : s \in PairedSheets, t \in PairedSheets}

\* ExcelParser(year_index): None for all years
YearIndexes == {PyNone, PyInt(0), PyInt(1)}

ParseInit ==
    /\ config \in {c \in YearConfigs : ~c.strict_mode}
    /\ _dict = EmptyDict
    /\ _fuzzy = FuzzyMatcherInit(CanonicalField, <<>>)
    /\ pc = "ready"
    /\ NoRun
    /\ raised = FALSE
    /\ NoMatch
    /\ year_outputs = <<>>

\* ExcelParser(year_index).parse_file(path) of the workbook at path
ParseFile(workbook, year_index) ==
    /\ pc = "ready"
    /\ call_arg' = [workbook |-> workbook, year_index |-> year_index]
    /\ call_result' = parse_file(workbook, year_index)
    /\ raised' = (call_result'.exc # "")
    /\ pc' = "parsed"
    /\ UNCHANGED <<config, _dict, _fuzzy, pairs, mappings, unmapped,
                   seen_canonical, report, query, candidate, year_outputs>>

ParseNext ==
    pc = "ready" /\ \E workbook \in Workbooks, year_index \in YearIndexes :
                        ParseFile(workbook, year_index)

ParseSpec == ParseInit /\ [][ParseNext]_vars

(***************************************************************************)
(* Properties of a pipeline run (Spec)                                     *)
(***************************************************************************)
\* the pair _run consumed last, normalised, and the mapping appended last
LastPair == pairs[Len(pairs)]

LastNormalized == normalize_pair(LastPair[1], LastPair[2])

LastMapping == mappings[Len(mappings)]

\* a pair has been consumed and the synonym dictionary holds its label
SynonymHit == pairs # <<>> /\ LastNormalized.label \in DOMAIN _dict

\* a pair has been consumed, the synonym dictionary misses its label and
\* the fuzzy matcher returns a candidate for it
FuzzyHit ==
    /\ pairs # <<>>
    /\ LastNormalized.label \notin DOMAIN _dict
    /\ match(_fuzzy, config, LastNormalized.label) # NoCandidate

IsAmbiguityWarning(w) == w.text = "Ambiguous fuzzy match"

\* the mapping appended last is the one of the last pair, to this name, with
\* this confidence and method
LastMappedAs(canonical_name, confidence, method) ==
    /\ mappings # <<>>
    /\ LastMapping.raw_label = LastPair[1]
    /\ LastMapping.value = LastNormalized.value
    /\ LastMapping.canonical_name = canonical_name
    /\ LastMapping.confidence = confidence
    /\ LastMapping.match_method = method

C2_ReturnedWitness ==
    /\ config.strict_mode
    /\ pc = "returned"
    /\ Len(report.warnings) >= 1
    /\ success(Output)

\* C3, as stated: a run with strict mode disabled never aborts: it neither
\* raises the strict-mode error nor lets another exception out, and when it
\* is finished it has returned an output, whose success flag is true exactly
\* when its list of validation errors is empty.
C3_NonStrictAlwaysReturns ==
    ~config.strict_mode =>
        /\ pc \notin {"raised", "aborted"}
        /\ (pc = "returned") =>
               /\ Output.validation_errors = validate(config, mappings).errors
               /\ success(Output) <=> (Output.validation_errors = <<>>)

\* what holds of the non-strict runs: none raises the strict-mode error, and
\* the success flag of a returned output is true exactly when its list of
\* validation errors is empty
C3_ReturnedSuccessIffNoErrors ==
    ~config.strict_mode =>
        /\ pc # "raised"
        /\ (pc = "returned") =>
               /\ Output.validation_errors = validate(config, mappings).errors
               /\ success(Output) <=> (Output.validation_errors = <<>>)

\* a non-strict run that returned an output with errors, success = false
C3_ReturnedWitness ==
    /\ ~config.strict_mode
    /\ pc = "returned"
    /\ Output.validation_errors # <<>>
    /\ Output.unmapped # <<>>
    /\ ~success(Output)

\* a non-strict run that OverflowError ended, with a pair already mapped
C3_AbortedWitness ==
    /\ ~config.strict_mode
    /\ pc = "aborted"
    /\ mappings # <<>>

\* C4, as stated: every target stored in the synonym dictionary, and the
\* canonical name of every MappingResult of a run, is a member of
\* CanonicalField.
C4_TargetsAreCanonical ==
    /\ \A key \in DOMAIN _dict : _dict[key] \in CANONICAL_NAMES
    /\ \A i \in 1..Len(mappings) : mappings[i].canonical_name \in CANONICAL_NAMES

\* what does hold of the targets: a target add_synonym or add_synonyms stored
\* is a member of CanonicalField; the others are targets of the built-in
\* table
C4_AddedTargetsAreCanonical ==
    \A key \in DOMAIN _dict :
        \/ _dict[key] \in CANONICAL_NAMES
        \/ (key \in DOMAIN SynonymMapperInit /\ _dict[key] = SynonymMapperInit[key])

\* C7: a pair whose label the synonym dictionary misses and for which the
\* fuzzy matcher returns a candidate becomes a MappingResult to the
\* candidate's name with method "fuzzy" and the candidate's score as
\* confidence; it carries an ambiguity warning exactly when the candidate is
\* flagged ambiguous.
C7_FuzzyHitMapsToCandidate ==
    FuzzyHit =>
        LET c == match(_fuzzy, config, LastNormalized.label)
        IN  /\ LastMappedAs(c.canonical_name, c.score, "fuzzy")
            /\ c.is_ambiguous <=>
                   (\E k \in 1..Len(LastMapping.warnings) :
                        IsAmbiguityWarning(LastMapping.warnings[k]))

\* an ambiguous candidate, mapped with the warning
C7_Witness ==
    /\ pc = "returned"
    /\ FuzzyHit
    /\ match(_fuzzy, config, LastNormalized.label).is_ambiguous
    /\ LastMapping.match_method = "fuzzy"
    /\ unmapped = <<>>
    /\ \E k \in 1..Len(LastMapping.warnings) :
           IsAmbiguityWarning(LastMapping.warnings[k])

\* a candidate that is not ambiguous, mapped without the warning
C7_UnambiguousWitness ==
    /\ pc = "returned"
    /\ FuzzyHit
    /\ ~match(_fuzzy, config, LastNormalized.label).is_ambiguous
    /\ LastMapping.match_method = "fuzzy"
    /\ \A k \in 1..Len(LastMapping.warnings) :
           ~IsAmbiguityWarning(LastMapping.warnings[k])

(***************************************************************************)
(* Properties of FuzzyMatcher.match (FuzzySpec)                            *)
(***************************************************************************)
\* the positions of the target pool and the score of each for the query
Pool == 1..Len(_fuzzy._target_keys)

PoolScore(i) == token_sort_ratio(query, _fuzzy._target_keys[i])

\* the positions with the best score
BestOfPool == {i \in Pool : \A j \in Pool : ~ScoreLess(PoolScore(i), PoolScore(j))}

Threshold == Score(config.fuzzy_threshold, 1)

\* leaving out position b, some score is within the delta of the score of b
SecondWithinDelta(b) ==
    \E j \in Pool \ {b} :
        ScoreGapAtMost(PoolScore(b), PoolScore(j), config.fuzzy_ambiguity_delta)

\* C5: match returns None when the label is empty or the best score over
\* the target pool is below fuzzy_threshold, and otherwise the best-scoring
\* target, with its score, which is at least fuzzy_threshold.
C5_NeverBelowThreshold ==
    pc = "matched" =>
        IF query = <<>> \/ \A i \in Pool : ScoreLess(PoolScore(i), Threshold)
        THEN candidate = NoCandidate
        ELSE /\ candidate # NoCandidate
             /\ ~ScoreLess(candidate.score, Threshold)
             /\ \E b \in BestOfPool :
                    /\ candidate.canonical_name = _fuzzy._targets[_fuzzy._target_keys[b]]
                    /\ candidate.score = PoolScore(b)

\* a label whose best score is exactly the threshold: returned
C5_Witness ==
    /\ pc = "matched"
    /\ candidate # NoCandidate
    /\ candidate.score = Threshold

\* a label whose best score is positive and below the threshold: None
C5_RejectedWitness ==
    /\ pc = "matched"
    /\ query # <<>>
    /\ candidate = NoCandidate
    /\ \E i \in Pool : ScoreLess(Score(0, 1), PoolScore(i))

\* C6: a returned candidate is flagged ambiguous if and only if a
\* second-best target exists and the best score exceeds the second-best by
\* at most fuzzy_ambiguity_delta.
C6_AmbiguousIffWithinDelta ==
    (pc = "matched" /\ candidate # NoCandidate) =>
        \A b \in BestOfPool : candidate.is_ambiguous <=> SecondWithinDelta(b)

\* an exact tie of best and second-best under delta 0: flagged
C6_Witness ==
    /\ pc = "matched"
    /\ candidate # NoCandidate
    /\ config.fuzzy_ambiguity_delta = 0
    /\ Cardinality(BestOfPool) >= 2
    /\ candidate.is_ambiguous

\* a second-best further away than the delta: not flagged
C6_ClearWitness ==
    /\ pc = "matched"
    /\ candidate # NoCandidate
    /\ config.fuzzy_ambiguity_delta = 5
    /\ ~candidate.is_ambiguous

(***************************************************************************)
(* Properties of Validator.validate (ValidatorSpec)                        *)
(***************************************************************************)
\* how many entries of a list of messages are this message
Count(msgs, msg) == Cardinality({k \in 1..Len(msgs) : msgs[k] = msg})

\* how many entries of a list of messages carry this text
CountText(msgs, text) == Cardinality({k \in 1..Len(msgs) : msgs[k].text = text})

Names == {mappings[i].canonical_name : i \in 1..Len(mappings)}

\* the positions of the mappings whose value is NaN or infinite
NonFinite ==
    {i \in 1..Len(mappings) :
        /\ mappings[i].value.type = "float"
        /\ mappings[i].value.fp \in {"nan", "inf", "-inf"}}

\* C8: validate reports one error for every mapping whose value is NaN or
\* infinite, whatever error_on_duplicate, required_fields and
\* max_absolute_value are, and then is_valid is false.
C8_NonFiniteIsError ==
    pc = "validated" =>
        /\ \A name \in Names :
               Count(report.errors, Msg("has non-finite value", name, <<>>, <<>>))
                   = Cardinality({i \in NonFinite : mappings[i].canonical_name = name})
        /\ CountText(report.errors, "has non-finite value") = Cardinality(NonFinite)
        /\ NonFinite # {} => ~is_valid(report)

\* a NaN value under the configuration that reports nothing else as an error
C8_Witness ==
    /\ pc = "validated"
    /\ ~config.error_on_duplicate
    /\ config.required_fields = <<>>
    /\ NonFinite # {}
    /\ ~is_valid(report)

\* the positions of the mappings to a canonical name an earlier mapping has
Later ==
    {i \in 1..Len(mappings) :
        \E j \in 1..(i - 1) : mappings[j].canonical_name = mappings[i].canonical_name}

\* the first mapping to the canonical name of mapping i
First(i) ==
    mappings[CHOOSE j \in 1..i :
                /\ mappings[j].canonical_name = mappings[i].canonical_name
                /\ \A k \in 1..(j - 1) :
                       mappings[k].canonical_name # mappings[i].canonical_name]

\* the duplicate finding of the later mapping i
Finding(i) ==
    Msg("Duplicate canonical mapping", mappings[i].canonical_name,
        First(i).raw_label, mappings[i].raw_label)

\* the list the duplicate findings go to, and the other one
FindingsList == IF config.error_on_duplicate THEN report.errors ELSE report.warnings

OtherList == IF config.error_on_duplicate THEN report.warnings ELSE report.errors

\* C9: the first mapping to a canonical name has no duplicate finding,
\* every later mapping to it has exactly one, an error when
\* error_on_duplicate is true and a warning when it is false; there are as
\* many duplicate findings as mappings less distinct canonical names.
C9_OneFindingPerLaterMapping ==
    pc = "validated" =>
        /\ \A i \in Later :
               Count(FindingsList, Finding(i))
                   = Cardinality({j \in Later : Finding(j) = Finding(i)})
        /\ CountText(FindingsList, "Duplicate canonical mapping")
               = Len(mappings) - Cardinality(Names)
        /\ CountText(OtherList, "Duplicate canonical mapping") = 0

\* two mappings to one name under error_on_duplicate = false: one warning
C9_Witness ==
    /\ pc = "validated"
    /\ ~config.error_on_duplicate
    /\ Len(mappings) = 2
    /\ Cardinality(Names) = 1
    /\ CountText(report.warnings, "Duplicate canonical mapping") = 1
    /\ CountText(report.errors, "Duplicate canonical mapping") = 0

\* two mappings to one name under error_on_duplicate = true: one error
C9_ErrorWitness ==
    /\ pc = "validated"
    /\ config.error_on_duplicate
    /\ Cardinality(Later) = 1
    /\ CountText(report.errors, "Duplicate canonical mapping") = 1

\* the positions of required_fields whose name no mapping has
Missing ==
    {k \in 1..Len(config.required_fields) : config.required_fields[k] \notin Names}

\* C10: validate reports exactly one error for each entry of required_fields
\* whose name is the canonical name of no mapping, and no required-field
\* error when the list is empty or every required name is mapped.
C10_OneErrorPerMissingField ==
    pc = "validated" =>
        /\ \A k \in 1..Len(config.required_fields) :
               Count(report.errors,
                     Msg("Required field missing", config.required_fields[k], <<>>, <<>>))
                   = Cardinality({j \in Missing :
                                     config.required_fields[j] = config.required_fields[k]})
        /\ CountText(report.errors, "Required field missing") = Cardinality(Missing)
        /\ CountText(report.warnings, "Required field missing") = 0

\* two required names, one mapped and one not: one error
C10_Witness ==
    /\ pc = "validated"
    /\ Len(config.required_fields) = 2
    /\ Cardinality(Missing) = 1
    /\ mappings # <<>>
    /\ CountText(report.errors, "Required field missing") = 1

\* every required name mapped: no required-field error
C10_AllMappedWitness ==
    /\ pc = "validated"
    /\ config.required_fields # <<>>
    /\ Missing = {}
    /\ CountText(report.errors, "Required field missing") = 0

(***************************************************************************)
(* C11: conflict warnings within a run and across the runs of a pipeline   *)
(***************************************************************************)
IsConflictWarning(w) == w.text = "Duplicate mapping"

\* the positions of the conflict warnings of a mapping
ConflictWarnings(m) ==
    {k \in 1..Len(m.warnings) : IsConflictWarning(m.warnings[k])}

\* the raw label of the first mapping of a list to the name of its mapping i
FirstLabelIn(ms, i) ==
    ms[CHOOSE j \in 1..i :
          /\ ms[j].canonical_name = ms[i].canonical_name
          /\ \A k \in 1..(j - 1) : ms[k].canonical_name # ms[i].canonical_name
      ].raw_label

\* in the mapping list of one run, the first mapping to a name carries no
\* conflict warning and every later one carries exactly one, which names the
\* raw label of the first
ConflictRule(ms) ==
    \A i \in 1..Len(ms) :
        IF \E j \in 1..(i - 1) : ms[j].canonical_name = ms[i].canonical_name
        THEN /\ Cardinality(ConflictWarnings(ms[i])) = 1
             /\ \A k \in ConflictWarnings(ms[i]) :
                    ms[i].warnings[k] =
                        Msg("Duplicate mapping", ms[i].canonical_name,
                            FirstLabelIn(ms, i), ms[i].raw_label)
        ELSE ConflictWarnings(ms[i]) = {}

\* whether a layer of the cascade resolves this raw label
Resolves(raw_label) ==
    \/ lookup(_dict, normalize_label(raw_label)) # None
    \/ match(_fuzzy, config, normalize_label(raw_label)) # NoCandidate

\* C11: in every run, the one under way and those whose outputs are stored,
\* the first mapping to a canonical name has no conflict warning and each
\* later mapping to it has one naming the first raw label, whatever earlier
\* runs on the pipeline mapped; a pair that a layer resolves is never left
\* out of the mappings, duplicate or not.
C11_ConflictWarningsAreLocalToTheRun ==
    /\ ConflictRule(mappings)
    /\ \A y \in 1..Len(year_outputs) : ConflictRule(year_outputs[y].output.mappings)
    /\ Len(mappings) + Len(unmapped) = Len(pairs)
    /\ \A k \in 1..Len(unmapped) : ~Resolves(unmapped[k].raw_label)

\* the second year's run maps two labels to the name the first year's run
\* mapped: the first of them without a conflict warning, the second with one
C11_Witness ==
    /\ Len(year_outputs) = 1
    /\ \E k \in 1..Len(year_outputs[1].output.mappings) :
           year_outputs[1].output.mappings[k].canonical_name = NET_WORTH
    /\ Len(mappings) = 2
    /\ mappings[1].canonical_name = NET_WORTH
    /\ mappings[2].canonical_name = NET_WORTH
    /\ mappings[1].raw_label # mappings[2].raw_label
    /\ ConflictWarnings(mappings[1]) = {}
    /\ \E k \in ConflictWarnings(mappings[2]) :
           mappings[2].warnings[k].b = mappings[1].raw_label

(***************************************************************************)
(* C12: the warnings of value normalization in the output                  *)
(***************************************************************************)
\* every warning the output of the run holds: those of its mappings and the
\* validation warnings (an entry of unmapped holds a label and a value only)
OutputWarnings ==
    UNION {Range(Output.mappings[i].warnings) : i \in 1..Len(Output.mappings)}
        \cup Range(Output.validation_warnings)

\* C12, as stated: when a run has returned, every warning normalize_value
\* emits for a pair of its input is in the output, whether the pair became a
\* MappingResult or an entry of unmapped.
C12_NoWarningDropped ==
    pc = "returned" =>
        \A i \in 1..Len(pairs) :
            Range(normalize_value(pairs[i][2]).warnings) \subseteq OutputWarnings

\* what holds: the warnings of a pair that became a MappingResult open the
\* warnings of that MappingResult
C12_MappedPairKeepsWarnings ==
    (pairs # <<>> /\ Resolves(LastPair[1])) =>
        /\ LastMapping.raw_label = LastPair[1]
        /\ Len(LastMapping.warnings) >= Len(LastNormalized.warnings)
        /\ SubSeq(LastMapping.warnings, 1, Len(LastNormalized.warnings))
               = LastNormalized.warnings

\* a returned run with a mapped pair whose value gave a warning
C12_MappedWitness ==
    /\ pc = "returned"
    /\ pairs # <<>>
    /\ Resolves(LastPair[1])
    /\ LastNormalized.warnings # <<>>
    /\ Range(LastNormalized.warnings) \subseteq OutputWarnings

\* a returned run with an unmapped pair whose warning is nowhere in the output
C12_DroppedWitness ==
    /\ pc = "returned"
    /\ unmapped # <<>>
    /\ \E i \in 1..Len(pairs) :
           /\ ~Resolves(pairs[i][1])
           /\ \E w \in Range(normalize_value(pairs[i][2]).warnings) :
                  w \notin OutputWarnings

(***************************************************************************)
(* C13: add_synonym and the canonical vocabulary                           *)
(***************************************************************************)
\* the members of the vocabulary a name stands for: those equal to it when
\* case and surrounding whitespace are ignored
MembersFor(canonical) ==
    {name \in CANONICAL_NAMES : Lower(name) = Lower(Strip(canonical))}

C13_InsertedWitness ==
    /\ ~raised
    /\ pc = "ready"
    /\ normalize_label(LabelNetWrth) # LabelNetWrth
    /\ normalize_label(LabelNetWrth) \in DOMAIN _dict
    /\ LabelNetWrth \notin DOMAIN _dict

(***************************************************************************)
(* C14: the most recent add_synonym wins, and the next run sees it         *)
(***************************************************************************)
\* the MappingResult a run appends for a pair the dictionary holds
MappedBySynonym(m, raw_label) ==
    /\ m.raw_label = raw_label
    /\ m.canonical_name = lookup(_dict, normalize_label(raw_label))
    /\ m.match_method = "synonym"

\* C14: a successful call for a variant makes lookup of the normalized variant
\* return the member the call named, whatever target the key had before, and
\* changes no other key; after a successful bulk call each of its keys holds
\* the member of the last item for that key; the steps of a run leave the dictionary as the calls
\* made it, and a pair whose normalized label the dictionary holds when the
\* run reaches it becomes a MappingResult to the dictionary's target.
C14_MostRecentCallWins ==
    [][/\ \A v \in SynonymVariants, c \in SynonymTargets :
              (AddSynonym(v, c) /\ ~raised') =>
                  /\ lookup(_dict', normalize_label(v)) \in MembersFor(c)
                  /\ \A k \in DOMAIN _dict' \ {normalize_label(v)} :
                         k \in DOMAIN _dict /\ _dict'[k] = _dict[k]
       /\ \A m \in SynonymBulkMappings :
              (AddSynonyms(m) /\ ~raised') =>
                  \A i \in 1..Len(m) :
                      (\A j \in (i + 1)..Len(m) :
                           normalize_label(m[j][1]) # normalize_label(m[i][1]))
                          => lookup(_dict', normalize_label(m[i][1]))
                                 \in MembersFor(m[i][2])
       /\ (pc = "running" \/ pc' = "running") => (_dict' = _dict)
       /\ \A p \in SynonymPairs :
              (MapPair(p[1], p[2]) /\ lookup(_dict, normalize_label(p[1])) # None) =>
                  /\ mappings' # mappings
                  /\ MappedBySynonym(mappings'[Len(mappings')], p[1])
                  /\ unmapped' = unmapped]_vars

\* a run has mapped, by the synonym layer, a label that the pipeline as
\* constructed leaves unmapped, to the name a call added for it; the built-in
\* key "pat" holds another target than the built-in one
C14_Witness ==
    /\ pc = "returned"
    /\ lookup(SynonymMapperInit, normalize_label(LabelXyz)) = None
    /\ match(_fuzzy, config, normalize_label(LabelXyz)) = NoCandidate
    /\ lookup(_dict, normalize_label(LabelXyz)) = NET_SALES
    /\ mappings # <<>>
    /\ MappedBySynonym(LastMapping, LabelXyz)
    /\ LastMapping.canonical_name = NET_SALES
    /\ unmapped = <<>>
    /\ lookup(SynonymMapperInit, normalize_label(LabelPat)) = NET_PROFIT
    /\ lookup(_dict, normalize_label(LabelPat)) = NET_SALES

\* a bulk call of two variants with one key: the later item's member is held
C14_BulkWitness ==
    /\ ~raised
    /\ pc = "ready"
    /\ lookup(_dict, normalize_label(LabelXyz)) = NET_PROFIT

\* a run before any call for the label: the pair is left unmapped
C14_UnmappedBeforeWitness ==
    /\ pc = "returned"
    /\ lookup(_dict, normalize_label(LabelXyz)) = None
    /\ Len(unmapped) = 1
    /\ unmapped[1].raw_label = LabelXyz
    /\ mappings = <<>>

(***************************************************************************)
(* C15: normalize_label is idempotent                                      *)
(***************************************************************************)
\* C15: normalize_label applied to what normalize_label returned for a label
\* returns the same string: after the second call the result is still
\* normalize_label of the label.
C15_NormalizeLabelIdempotent ==
    pc = "relabel" => call_result = normalize_label(call_arg)

\* a label the first call changed in every way it can: stripped, lowercased,
\* punctuation removed and the whitespace around it collapsed
C15_Witness ==
    /\ pc = "relabel"
    /\ call_arg = <<"A", ".", "\t">>
    /\ call_result = <<"a">>

\* a label whose punctuation stands between two spaces
C15_CollapseWitness ==
    /\ pc = "relabel"
    /\ call_arg = LongTermBorrowings(<<" ", EmDash, " ">>)
    /\ Len(call_result) = Len(call_arg) - 2

(***************************************************************************)
(* C16: en and em dashes in labels                                         *)
(***************************************************************************)
Dashes == {EnDash, EmDash}

\* the label with every en and em dash replaced by an ASCII hyphen
Hyphenated(s) == [i \in 1..Len(s) |-> IF s[i] \in Dashes THEN "-" ELSE s[i]]

LongTermBorrowingsNormalized ==
    <<"l","o","n","g","-","t","e","r","m"," ",
      "b","o","r","r","o","w","i","n","g","s">>

\* C16, as stated: normalize_label turns every en dash and em dash of the
\* label into an ASCII hyphen, so that the label normalizes as the label
\* written with hyphens does; "Long", a dash, "term Borrowings" gives
\* "long-term borrowings".
C16_DashesBecomeHyphens ==
    pc = "label" =>
        /\ call_result = normalize_label(Hyphenated(call_arg))
        /\ call_arg \in {LongTermBorrowings(<<EnDash>>), LongTermBorrowings(<<EmDash>>)}
               => call_result = LongTermBorrowingsNormalized

\* what holds: no dash is left in the result, and a label without the
\* characters of the line-61 literals normalizes as the label with its dashes
\* deleted does
C16_DashesAreDeleted ==
    pc = "label" =>
        /\ Range(call_result) \cap Dashes = {}
        /\ Range(call_arg) \cap Range(EnDashLiteral \o EmDashLiteral) = {}
               => call_result = normalize_label(FilterSeq(call_arg, Range(call_arg) \ Dashes))

\* the label written with an en dash loses the dash
C16_DeletedWitness ==
    /\ pc = "label"
    /\ call_arg = LongTermBorrowings(<<EnDash>>)
    /\ call_result = FilterSeq(LongTermBorrowingsNormalized, LabelKept \ {"-"})

\* the three characters of the first literal of line 61 become a hyphen
C16_LiteralWitness ==
    /\ pc = "label"
    /\ call_arg = LongTermBorrowings(EnDashLiteral)
    /\ call_result = LongTermBorrowingsNormalized

(***************************************************************************)
(* C17: currency-prefixed numeric strings                                  *)
(***************************************************************************)
\* the number a currency string writes: the digits after the symbol without
\* their commas, negated when the string is wrapped in parentheses
CurrencyNumber(text) ==
    LET wrapped == text[1] = "("
        inner == IF wrapped THEN SubSeq(text, 2, Len(text) - 1) ELSE text
        digits == FilterSeq(Tail(inner), Range(inner) \ {","})
    IN  IF wrapped THEN Negate(ParseUnsigned(digits)) ELSE ParseUnsigned(digits)

DollarStrings ==
    {t \in CurrencyStrings : t[1] = "$" \/ (t[1] = "(" /\ t[2] = "$")}

\* C17: normalize_value of a number prefixed by a rupee, dollar, euro, pound
\* or yen sign, with or without commas and parentheses, returns the number
\* with symbol and commas removed, negated when parenthesized, and never None.
C17_CurrencyStringsParse ==
    (pc = "value" /\ call_arg.type = "str" /\ call_arg.text \in CurrencyStrings)
        => /\ call_result.value # PyNone
           /\ call_result.value = CurrencyNumber(call_arg.text)

\* what the code does: a dollar-prefixed number parses to its number without
\* a warning, and a number prefixed by any of the other four symbols is
\* returned as None with the warning that it cannot be parsed
C17_OnlyDollarParses ==
    (pc = "value" /\ call_arg.type = "str" /\ call_arg.text \in CurrencyStrings)
        => IF call_arg.text \in DollarStrings
           THEN /\ call_result.value = CurrencyNumber(call_arg.text)
                /\ call_result.value # PyNone
                /\ call_result.warnings = <<>>
           ELSE /\ call_result.value = PyNone
                /\ call_result.warnings =
                       <<Msg("Cannot parse numeric value", call_arg.text, <<>>, <<>>)>>

\* the rupee-prefixed string for 12,000 comes back as None
C17_RupeeWitness ==
    /\ pc = "value"
    /\ call_arg = PyStr(<<Rupee, "1", "2", ",", "0", "0", "0">>)
    /\ call_result.value = PyNone

\* the dollar-prefixed strings for 12,000 come back as 12000.0 and -12000.0
C17_DollarWitness ==
    /\ pc = "value"
    /\ \/ /\ call_arg = PyStr(<<"$", "1", "2", ",", "0", "0", "0">>)
          /\ call_result.value = PyFloat(12000, 0)
       \/ /\ call_arg = PyStr(<<"(", "$", "1", "2", ",", "0", "0", "0", ")">>)
          /\ call_result.value = PyFloat(-12000, 0)

\* a parenthesized dollar amount comes back negated
C17_ParenWitness ==
    /\ pc = "value"
    /\ call_arg = PyStr(<<"(", "$", "1", ",", "2", "3", ",", "4", "5", "6", ")">>)
    /\ call_result.value = PyFloat(-123456, 0)

(***************************************************************************)
(* C18: a trailing percent sign                                            *)
(***************************************************************************)
PercentWarning == Msg("Percent symbol stripped", <<>>, <<>>, <<>>)

\* the number a text writes, by float() once its commas are taken out
WrittenNumber(text) == ParseFloat(FilterSeq(text, Range(text) \ {","}))

\* what a string writes before its trailing percent sign
BeforePercent(text) == SubSeq(Strip(text), 1, Len(Strip(text)) - 1)

EndsWithPercent(text) ==
    Strip(text) # <<>> /\ Strip(text)[Len(Strip(text))] = "%"

\* the number of a percent string built from a number n: bare, with a space
\* before the sign, with a minus sign, with a dollar prefix, or wrapped
\* together with its sign in parentheses
PercentNumber(text) ==
    IF text[1] = "-" \/ text[1] = "("
    THEN Negate(WrittenNumber(
             SubSeq(text, 2, Len(text) - (IF text[1] = "(" THEN 2 ELSE 1))))
    ELSE IF text[1] = "$"
    THEN WrittenNumber(SubSeq(text, 2, Len(text) - 1))
    ELSE WrittenNumber(SubSeq(text, 1, Len(text) - 1))

\* the percent strings whose sign is the last character inside the wrapper,
\* if there is one: all but "(n)%"
SignedPercentStrings ==
    {t \in PercentStrings : ~(t[1] = "(" /\ t[Len(t)] = "%")}

\* C18: normalize_value of a numeric string with a trailing percent sign
\* returns the number written before the sign, not that number divided by
\* 100, and exactly one warning, that a percent symbol was stripped.
C18_PercentKeepsTheNumber ==
    (pc = "value" /\ call_arg.type = "str")
        => /\ (EndsWithPercent(call_arg.text)
                  /\ WrittenNumber(BeforePercent(call_arg.text)) # PyNone)
                  => /\ call_result.value = WrittenNumber(BeforePercent(call_arg.text))
                     /\ call_result.warnings = <<PercentWarning>>
           /\ call_arg.text \in SignedPercentStrings
                  => /\ call_result.value = PercentNumber(call_arg.text)
                     /\ call_result.value # PyNone
                     /\ call_result.warnings = <<PercentWarning>>

\* "12.5%" comes back as 12.5 with the warning
C18_Witness ==
    /\ pc = "value"
    /\ call_arg = PyStr(<<"1", "2", ".", "5", "%">>)
    /\ call_result = [value |-> PyFloat(125, 1), warnings |-> <<PercentWarning>>]

\* "12,000 %" comes back as 12000.0 and "(5000%)" as -5000.0
C18_SeparatedWitness ==
    /\ pc = "value"
    /\ call_result.warnings = <<PercentWarning>>
    /\ \/ /\ call_arg = PyStr(<<"1", "2", ",", "0", "0", "0", " ", "%">>)
          /\ call_result.value = PyFloat(12000, 0)
       \/ /\ call_arg = PyStr(<<"(", "5", "0", "0", "0", "%", ")">>)
          /\ call_result.value = PyFloat(-5000, 0)

(***************************************************************************)
(* C19: the identifier of a fiscal-year header cell (HeaderSpec)           *)
(***************************************************************************)
\* the text cells that consist of FY and a 4-digit year with one space or
\* nothing between them
PlainFiscalTexts ==
    {<<"F", "Y">> \o ws \o y : ws \in {<<>>, <<" ">>}, y \in FourDigitYears}

\* the 4-digit year a fiscal-year text ends with
YearOf(text) == SubSeq(text, Len(text) - 3, Len(text))

\* the year of the text is one that \b(20\d{2})\b matches
IsBareYear(text) == YearOf(text)[1] = "2" /\ YearOf(text)[2] = "0"

\* C19: a text cell made of FY and a 4-digit year, with or without a space
\* between them, is given the identifier FY<year>, not the bare year.
C19_FiscalYearKeepsPrefix ==
    (pc = "year" /\ call_arg.type = "str" /\ call_arg.text \in PlainFiscalTexts)
        => call_result = <<"F", "Y">> \o YearOf(call_arg.text)

\* what the code does with FY, any whitespace or none, and a 4-digit year:
\* the bare year when there is whitespace and the year is 2000..2099, which
\* the pattern for a 4-digit year matches first, and FY<year> otherwise
C19_SpacedFiscalYearIsBareYear ==
    (pc = "year" /\ call_arg.type = "str" /\ call_arg.text \in FiscalYearTexts)
        => call_result =
               IF Len(call_arg.text) > 6 /\ IsBareYear(call_arg.text)
               THEN YearOf(call_arg.text)
               ELSE <<"F", "Y">> \o YearOf(call_arg.text)

\* "FY 2025" comes back as "2025"
C19_SpacedWitness ==
    /\ pc = "year"
    /\ call_arg = PyStr(<<"F", "Y", " ", "2", "0", "2", "5">>)
    /\ call_result = <<"2", "0", "2", "5">>

\* "FY2025" comes back as "FY2025", and so does "fy2025"
C19_JoinedWitness ==
    /\ pc = "year"
    /\ call_arg \in {PyStr(<<"F", "Y", "2", "0", "2", "5">>),
                PyStr(<<"f", "y", "2", "0", "2", "5">>)}
    /\ call_result = <<"F", "Y", "2", "0", "2", "5">>

\* "FY 1999" comes back as "FY1999": the pattern for a 4-digit year asks
\* for 20 first
C19_OtherCenturyWitness ==
    /\ pc = "year"
    /\ call_arg = PyStr(<<"F", "Y", " ", "1", "9", "9", "9">>)
    /\ call_result = <<"F", "Y", "1", "9", "9", "9">>

(***************************************************************************)
(* C20: the synthetic year identifiers (HeaderSpec)                        *)
(***************************************************************************)
\* the sheet has been parsed up to its year headers with a layout that has
\* value columns
HeadersExtracted == pc = "headers" /\ call_result.layout.type # "t_account"

\* the rows of the grid the header scan visits
ScannedRows ==
    LET header_row == IF "header_row" \in DOMAIN call_result.layout
                      THEN call_result.layout.header_row
                      ELSE 0
    IN  {i \in 1..Len(call_arg) : i - 1 - header_row \in Range(RowOffsets)}

\* no cell of a value column in a scanned row yields a year identifier
NoYearInScan ==
    \A i \in ScannedRows :
        \A k \in 1..Len(call_result.layout.value_cols) :
            LET col_idx == call_result.layout.value_cols[k]
            IN  col_idx < Len(call_arg[i])
                    => _extract_year_from_header(call_arg[i][col_idx + 1]) = None

\* C20: when no value column yields a year identifier in the header scan,
\* the year headers give the value columns, taken from left to right, the
\* identifiers "Year 1", "Year 2", ..., one to each value column.
C20_SyntheticYearsInColumnOrder ==
    (HeadersExtracted /\ NoYearInScan)
        => LET value_cols == call_result.layout.value_cols
               year_headers == call_result.year_headers
           IN  /\ Len(year_headers) = Len(value_cols)
               /\ \A i \in 1..Len(value_cols) :
                      /\ year_headers[i].col = value_cols[i]
                      /\ year_headers[i].year = YearWord \o IntToDigits(i)
               /\ \A i \in 1..Len(value_cols), j \in 1..Len(value_cols) :
                      i < j => value_cols[i] < value_cols[j]

\* two value columns without a year: columns 1 and 2 are "Year 1" and "Year 2"
C20_Witness ==
    /\ HeadersExtracted
    /\ NoYearInScan
    /\ call_result.layout.value_cols = <<1, 2>>
    /\ call_result.year_headers =
           << [col |-> 1, year |-> <<"Y","e","a","r"," ","1">>],
              [col |-> 2, year |-> <<"Y","e","a","r"," ","2">>] >>

\* the only value column is column 2: it is "Year 1"
C20_SecondColumnWitness ==
    /\ HeadersExtracted
    /\ NoYearInScan
    /\ call_result.layout.value_cols = <<2>>
    /\ call_result.year_headers = << [col |-> 2, year |-> <<"Y","e","a","r"," ","1">>] >>

\* one of two value columns has a year: no identifier is made up
C20_FoundWitness ==
    /\ HeadersExtracted
    /\ ~NoYearInScan
    /\ call_result.layout.value_cols = <<1, 2>>
    /\ call_result.year_headers = << [col |-> 2, year |-> <<"F","Y","2","0","2","5">>] >>

(***************************************************************************)
(* C25: strict mode and unresolved pairs (Spec)                            *)
(***************************************************************************)
\* C25: a strict run in which at least one input pair matched no layer
\* raises; it never returns a PipelineOutput that holds an unmapped entry.
C25_StrictRaisesOnUnmapped ==
    (config.strict_mode /\ pc \in {"returned", "raised"} /\ unmapped # <<>>)
        => pc = "raised"

\* what the code does: whether a strict run raises depends on the validation
\* errors alone, so a strict run with an unmapped pair and no validation
\* error returns its partial output
C25_StrictRaisesOnErrorsOnly ==
    (config.strict_mode /\ pc \in {"returned", "raised"} /\ unmapped # <<>>)
        => ((pc = "raised") <=> (Len(validate(config, mappings).errors) >= 1))

\* a strict run that returned an output with an unmapped entry
C25_PartialWitness ==
    /\ config.strict_mode
    /\ pc = "returned"
    /\ unmapped # <<>>
    /\ Output.unmapped = unmapped
    /\ success(Output)

\* a strict run with an unmapped pair that raised: a required field is
\* missing
C25_RaisedWitness ==
    /\ config.strict_mode
    /\ pc = "raised"
    /\ unmapped # <<>>

(***************************************************************************)
(* C26: the order of the fuzzy target pool (FuzzySpec)                     *)
(***************************************************************************)
\* the extra targets the matcher was built with: the targets of its pool
\* that are no canonical name, in the order of the pool
ExtrasOf(fm) ==
    LET keys == FilterSeq(fm._target_keys,
                          Range(fm._target_keys) \ {Lower(n) : n \in CANONICAL_NAMES})
    IN  [i \in 1..Len(keys) |-> fm._targets[keys[i]]]

\* the matcher whose pool is the canonical vocabulary in its declaration
\* order, followed by the extra targets of this one
DeclarationMatcher == FuzzyMatcherInit(CanonicalField, ExtrasOf(_fuzzy))

\* the first position of the pool among those with the best score
EarliestBest == CHOOSE b \in BestOfPool : \A j \in BestOfPool : b <= j

\* C26: the pool is the canonical vocabulary in declaration order followed
\* by the extra targets, and a tie for the best score goes to the target
\* earliest in that order, so that every matcher built from one
\* configuration returns for a label what the matcher in declaration order
\* returns: the same canonical name, score and ambiguity flag.
C26_DeclarationOrderDecides ==
    pc = "matched" =>
        /\ _fuzzy._target_keys = DeclarationMatcher._target_keys
        /\ candidate = match(DeclarationMatcher, config, query)

\* what the code does: the pool is in the order in which the set
\* CANONICAL_NAMES is iterated, a tie goes to the target earliest in the
\* pool of this matcher, and among the matchers built from one
\* configuration whether there is a candidate, its score and its ambiguity
\* flag agree, while the canonical name agrees unless the best score is tied
C26_OnlyTheNameDependsOnOrder ==
    pc = "matched" =>
        /\ candidate # NoCandidate =>
               candidate.canonical_name
                   = _fuzzy._targets[_fuzzy._target_keys[EarliestBest]]
        /\ \A order \in SetOrders :
               LET other == match(FuzzyMatcherInit(order, ExtrasOf(_fuzzy)),
                                  config, query)
               IN  /\ (other = NoCandidate) <=> (candidate = NoCandidate)
                   /\ candidate # NoCandidate =>
                          /\ other.score = candidate.score
                          /\ other.is_ambiguous = candidate.is_ambiguous
                          /\ other.canonical_name # candidate.canonical_name
                                 => Cardinality(BestOfPool) >= 2

\* a matcher whose answer is not the one of the matcher in declaration
\* order: "net" scores 50 against "net sales" and against "net worth"
C26_TieWitness ==
    /\ pc = "matched"
    /\ query = <<"n", "e", "t">>
    /\ candidate # NoCandidate
    /\ candidate.canonical_name = NET_WORTH
    /\ match(DeclarationMatcher, config, query).canonical_name = NET_SALES

\* a label without a tie: every matcher returns the same candidate
C26_NoTieWitness ==
    /\ pc = "matched"
    /\ candidate # NoCandidate
    /\ Cardinality(BestOfPool) = 1
    /\ _fuzzy._target_keys # DeclarationMatcher._target_keys
    /\ candidate = match(DeclarationMatcher, config, query)

(***************************************************************************)
(* C27: a run partitions its input (Spec)                                  *)
(***************************************************************************)
\* the pairs from the i-th on are, in their order, the raw labels and
\* values of the mappings from the m-th on and of the unmapped entries from
\* the u-th on, each pair being one entry of one of the two lists
RECURSIVE PartitionFrom(_, _, _)
PartitionFrom(i, m, u) ==
    IF i > Len(pairs)
    THEN m = Len(mappings) + 1 /\ u = Len(unmapped) + 1
    ELSE \/ /\ m <= Len(mappings)
            /\ mappings[m].raw_label = pairs[i][1]
            /\ mappings[m].value = normalize_value(pairs[i][2]).value
            /\ PartitionFrom(i + 1, m + 1, u)
         \/ /\ u <= Len(unmapped)
            /\ unmapped[u].raw_label = pairs[i][1]
            /\ unmapped[u].raw_value = pairs[i][2]
            /\ PartitionFrom(i + 1, m, u + 1)

\* C27: the pairs a run has consumed are partitioned by its two lists: every
\* pair is one MappingResult or one unmapped entry, so the lengths add up to
\* the number of pairs; both lists are in input order, and every entry
\* carries the raw label as it was given.
C27_RunPartitionsInput ==
    /\ Len(mappings) + Len(unmapped) = Len(pairs)
    /\ PartitionFrom(1, 1, 1)

\* a returned run of two pairs, the first unmapped and the second mapped
\* under its raw label "Net  Wrth"
C27_Witness ==
    /\ pc = "returned"
    /\ Len(pairs) = 2
    /\ Len(unmapped) = 1
    /\ unmapped[1].raw_label = LabelXyz
    /\ Len(mappings) = 1
    /\ mappings[1].raw_label = LabelNetWrth
    /\ normalize_label(LabelNetWrth) # LabelNetWrth
    /\ pairs[1][1] = LabelXyz

(***************************************************************************)
(* C30: the year headers and the value columns (HeaderSpec)                *)
(***************************************************************************)
\* C30: the year headers of a statutory or generic sheet give every value
\* column of the layout a year identifier, also when only some of the
\* columns have a year in the rows the scan visits.
C30_YearMapIsTotal ==
    HeadersExtracted
        => \A k \in 1..Len(call_result.layout.value_cols) :
               HasColumn(call_result.year_headers, call_result.layout.value_cols[k])

\* what the code keeps: a column has an identifier when the scan found a
\* year for it, or when the scan found no year at all
C30_OnlyFoundYearsOrAllSynthetic ==
    HeadersExtracted
        => \A k \in 1..Len(call_result.layout.value_cols) :
               LET col == call_result.layout.value_cols[k]
               IN  HasColumn(call_result.year_headers, col)
                       <=> \/ NoYearInScan
                           \/ \E i \in ScannedRows :
                                  LET year == _extract_year_from_header(call_arg[i][col + 1])
                                  IN  year # None /\ year # <<>>

\* a generic sheet with three rows of figures in two value columns, of which
\* only the first has a year above it: the second has no identifier
C30_PartialWitness ==
    /\ HeadersExtracted
    /\ call_result.layout.type = "generic"
    /\ call_result.layout.value_cols = <<1, 2>>
    /\ Len(call_arg) = 4
    /\ call_arg[1] = <<ParticularsCell, FiscalCell, PyNone>>
    /\ call_arg[2] = <<SalesCell, Five, Five>>
    /\ call_result.year_headers = << [col |-> 1, year |-> <<"F","Y","2","0","2","5">>] >>

(***************************************************************************)
(* Properties of parse_file (ParseSpec)                                    *)
(***************************************************************************)
\* parse_file has been called on a workbook with one sheet that has rows
ParsedOneSheet ==
    pc = "parsed" /\ Len(call_arg.workbook) = 1 /\ call_arg.workbook[1] # <<>>

\* the parser was made without a year_index: it extracts all years
AllYears == call_arg.year_index.type = "NoneType"

\* the only sheet of the workbook and its layout
Sheet == call_arg.workbook[1]

SheetLayout == _detect_layout(Sheet)

\* the sheet is a ledger in which no column group is detected
LedgerWithoutGroups ==
    ParsedOneSheet /\ SheetLayout.type = "t_account" /\ SheetLayout.groups = <<>>

(***************************************************************************)
(* C29: a ledger without column groups, all years (ParseSpec)              *)
(***************************************************************************)
\* C29: parsing, for all years, a sheet that is classified as a ledger and
\* in which no column group is detected does not raise: it returns pairs
\* under a single year key.
C29_LedgerWithoutGroupsReturns ==
    (LedgerWithoutGroups /\ AllYears)
        => /\ call_result.exc = ""
           /\ Len(call_result.value) = 1

\* what the code does: the fallback to _parse_generic raises TypeError
C29_LedgerWithoutGroupsRaises ==
    (LedgerWithoutGroups /\ AllYears) => call_result.exc = "TypeError"

\* with a year_index the same sheets fall back to the generic parse
C29_SingleYearFallsBack ==
    (LedgerWithoutGroups /\ ~AllYears)
        => call_result = _parse_generic(Sheet, _detect_generic_columns(Sheet),
                                        call_arg.year_index)

\* a ledger with one row below its titles, parsed for all years
C29_RaisedWitness ==
    /\ LedgerWithoutGroups
    /\ AllYears
    /\ Sheet = << <<DrParticularsCell, AmountCell, CrParticularsCell, AmountCell>>,
                  <<ToPurchasesCell, Five, BySalesCell, Seven>> >>
    /\ raised

(***************************************************************************)
(* C24: duplicate labels in the lists parse_file returns (ParseSpec)       *)
(***************************************************************************)
\* no two pairs of the list have the same trimmed, lowercased label
DistinctLabels(list) ==
    \A i \in 1..Len(list), j \in 1..Len(list) :
        LabelKey(list[i][1]) = LabelKey(list[j][1]) => i = j

\* parse_file returned
ParseReturned == pc = "parsed" /\ call_result.exc = ""

\* C24: every pair list parse_file returns, the list of the single-year mode
\* and each year's list of the all-years mode, holds a trimmed, lowercased
\* label at most once.
C24_NoDuplicateLabels ==
    ParseReturned
        => IF AllYears
           THEN \A k \in 1..Len(call_result.value) :
                    DistinctLabels(call_result.value[k].pairs)
           ELSE DistinctLabels(call_result.value)

\* the part the code keeps: each year's list of the all-years mode
C24_AllYearsNoDuplicateLabels ==
    (ParseReturned /\ AllYears)
        => \A k \in 1..Len(call_result.value) :
               DistinctLabels(call_result.value[k].pairs)

\* the single-year mode returns every pair its sheets gave it
C24_SingleYearKeepsEveryPair ==
    (ParseReturned /\ ~AllYears)
        => call_result.value = SheetPairs(call_arg.workbook, call_arg.year_index, 1).value

\* "Sales" and "SALES" in one sheet, parsed with year_index 0: both are
\* returned
C24_DuplicateWitness ==
    /\ ParseReturned
    /\ call_arg.year_index = PyInt(0)
    /\ call_arg.workbook = << << <<ParticularsCell, PyInt(2025), PyNone>>,
                                 <<SalesCell, Five, Seven>>,
                                 <<UpperSalesCell, Nine, PyNone>> >> >>
    /\ call_result.value = << <<LabelSales, PyFloat(5, 0)>>,
                              <<<<"S","A","L","E","S">>, PyFloat(9, 0)>> >>

\* the same sheet parsed for all years: the first of the two is kept
C24_FirstKeptWitness ==
    /\ ParseReturned
    /\ AllYears
    /\ call_arg.workbook = << << <<ParticularsCell, PyInt(2025), PyNone>>,
                                 <<SalesCell, Five, Seven>>,
                                 <<UpperSalesCell, Nine, PyNone>> >> >>
    /\ call_result.value = << [year |-> <<"2","0","2","5">>,
                               pairs |-> << <<LabelSales, PyFloat(5, 0)>> >>] >>

(***************************************************************************)
(* C28: the year a figure is recorded under (ParseSpec)                    *)
(***************************************************************************)
\* a statutory sheet has been parsed for all years
StatutoryAllYears ==
    ParsedOneSheet /\ AllYears /\ call_result.exc = "" /\ SheetLayout.type = "schedule_iii"

SheetYearColumns == _extract_year_headers(Sheet, SheetLayout)

\* col is the value column of a year other than year
OtherYearsColumn(col, year) ==
    \E k \in 1..Len(SheetYearColumns) : SheetYearColumns[k].col = col /\ SheetYearColumns[k].year # year

\* the pair is the label of a row below the header with the figure of one of
\* the row's cells in a column that cols holds
ReadFrom(pair, cols) ==
    \E i \in (SheetLayout.header_row + 2)..Len(Sheet) :
        /\ RowLabel(Sheet[i], SheetLayout.label_col) = pair[1]
        /\ \E col \in cols :
               /\ col < Len(Sheet[i])
               /\ _is_numeric(Sheet[i][col + 1])
               /\ _to_number(Sheet[i][col + 1]) = pair[2]

\* C28: in the all-years parse of a statutory sheet, every pair recorded
\* under a year has its figure from a column that is not the value column of
\* a different year.
C28_NoFigureOfAnotherYear ==
    StatutoryAllYears
        => \A k \in 1..Len(call_result.value) :
               \A p \in 1..Len(call_result.value[k].pairs) :
                   ReadFrom(call_result.value[k].pairs[p],
                            {col \in 0..(max_cols(Sheet) - 1) :
                                ~OtherYearsColumn(col, call_result.value[k].year)})

\* what the code keeps: the figure is from a column of the year or from a
\* column next to one
C28_FigureFromOwnOrAdjacentColumn ==
    StatutoryAllYears
        => \A k \in 1..Len(call_result.value) :
               \A p \in 1..Len(call_result.value[k].pairs) :
                   ReadFrom(call_result.value[k].pairs[p],
                            {col \in 0..(max_cols(Sheet) - 1) :
                                \E h \in 1..Len(SheetYearColumns) :
                                    /\ SheetYearColumns[h].year = call_result.value[k].year
                                    /\ col - SheetYearColumns[h].col \in {0, 1, -1}})

\* the columns of 2025 and 2026 and a row with a figure for 2026 only: the
\* figure is recorded under both years
C28_CrossYearWitness ==
    /\ StatutoryAllYears
    /\ Sheet = << <<ParticularsCell, PyInt(2025), PyInt(2026)>>,
                  <<SalesCell, PyNone, Seven>> >>
    /\ call_result.value =
           << [year |-> <<"2","0","2","5">>, pairs |-> << <<LabelSales, PyFloat(7, 0)>> >>],
              [year |-> <<"2","0","2","6">>, pairs |-> << <<LabelSales, PyFloat(7, 0)>> >>] >>

(***************************************************************************)
(* C23: the columns probed for a figure (ParseSpec)                        *)
(***************************************************************************)
\* a sheet with one label column, statutory or generic, has been parsed
ColumnSheetParsed ==
    ParsedOneSheet /\ call_result.exc = "" /\ SheetLayout.type # "t_account"

\* the value columns the parse reads, each with the list its pairs go to:
\* the columns of the year headers, or the column of year_index
ReadColumns ==
    IF AllYears
    THEN {[col |-> SheetYearColumns[k].col,
           list |-> PairsOf(call_result.value, SheetYearColumns[k].year)] :
             k \in 1..Len(SheetYearColumns)}
    ELSE {[col |-> IF call_arg.year_index.num < Len(SheetLayout.value_cols)
                   THEN SheetLayout.value_cols[call_arg.year_index.num + 1]
                   ELSE SheetLayout.value_cols[1],
           list |-> call_result.value]}

\* the rows of the sheet (1-based) that hold data
SheetDataRows ==
    {i \in 1..Len(Sheet) :
        /\ SheetLayout.type = "schedule_iii" => i > SheetLayout.header_row + 1
        /\ RowLabel(Sheet[i], SheetLayout.label_col) # <<>>
        /\ ~_should_skip(RowLabel(Sheet[i], SheetLayout.label_col))}

\* the row has a numeric cell at one of the offsets from col, inside the row
\* and outside the label column
FigureNear(row, col, offsets) ==
    \E o \in offsets :
        /\ 0 <= col + o
        /\ col + o < Len(row)
        /\ col + o # SheetLayout.label_col
        /\ _is_numeric(row[col + o + 1])

\* the list holds a pair with the label of the row, or with a label that
\* differs from it in case only: parse_file drops such a duplicate
RowKept(row, list) ==
    \E p \in 1..Len(list) :
        LabelKey(list[p][1]) = LabelKey(RowLabel(row, SheetLayout.label_col))

\* C23: in the statutory and the generic parse, of one year and of all
\* years, a data row is discarded for a value column only if neither the
\* column nor a column at offset +1, -1, +2 or -2 holds a numeric cell.
C23_RowKeptWhenAColumnNearbyHasAFigure ==
    ColumnSheetParsed
        => \A c \in ReadColumns : \A i \in SheetDataRows :
               FigureNear(Sheet[i], c.col, {0, 1, -1, 2, -2}) => RowKept(Sheet[i], c.list)

\* the offsets each path of the code probes
ProbedOffsets ==
    IF SheetLayout.type # "schedule_iii" THEN {0}
    ELSE IF AllYears THEN {0} \cup Range(MultiYearOffsets)
    ELSE {0} \cup Range(ScheduleIIIOffsets)

\* what the code keeps: a label is in the list of a value column exactly
\* when one of its rows has a figure at an offset its path probes
C23_RowKeptWhenAProbedColumnHasAFigure ==
    ColumnSheetParsed
        => \A c \in ReadColumns : \A i \in SheetDataRows :
               RowKept(Sheet[i], c.list)
                   <=> \E j \in SheetDataRows :
                           /\ LabelKey(RowLabel(Sheet[j], SheetLayout.label_col))
                                  = LabelKey(RowLabel(Sheet[i], SheetLayout.label_col))
                           /\ FigureNear(Sheet[j], c.col, ProbedOffsets)

\* a generic sheet with a year over its first value column and a row with
\* a figure in the next column only: the row is discarded
C23_GenericWitness ==
    /\ ColumnSheetParsed
    /\ AllYears
    /\ Sheet = << <<ParticularsCell, FiscalCell, PyNone>>,
                  <<SalesCell, PyNone, Seven>> >>
    /\ SheetLayout.type = "generic"
    /\ call_result.value = << [year |-> <<"F","Y","2","0","2","5">>, pairs |-> <<>>] >>

\* the same row on a statutory sheet, parsed with year_index 0: the figure
\* of the next column is taken
C23_ProbedWitness ==
    /\ ColumnSheetParsed
    /\ call_arg.year_index = PyInt(0)
    /\ Sheet = << <<ParticularsCell, PyInt(2025), PyNone>>,
                  <<SalesCell, PyNone, Seven>> >>
    /\ call_result.value = << <<LabelSales, PyFloat(7, 0)>> >>

(***************************************************************************)
(* C22: section titles in a statutory sheet (ParseSpec)                    *)
(***************************************************************************)
\* a statutory sheet has been parsed with a year_index
StatutorySingleYear ==
    ParsedOneSheet /\ ~AllYears /\ call_result.exc = "" /\ SheetLayout.type = "schedule_iii"

\* the rows (0-based) below the header whose label cell is a section title
\* and that have a row with a date or a year among the rows from them up to
\* 4 rows further
TitleRows ==
    {i \in (SheetLayout.header_row + 1)..(Len(Sheet) - 1) :
        LET raw_label == CellAt(Sheet[i + 1], SheetLayout.label_col)
        IN  /\ raw_label.type = "str"
            /\ \E title \in SectionTitles : Contains(Upper(Strip(raw_label.text)), title)
            /\ \E k \in i..(Min(i + 5, Len(Sheet)) - 1) : DateCols(Sheet[k + 1], 0) # <<>>}

\* the column selected from the header that follows title row i
TitleColumn(i) ==
    LET k == Leftmost({k \in i..(Min(i + 5, Len(Sheet)) - 1) : DateCols(Sheet[k + 1], 0) # <<>>})
        new_val_cols == DateCols(Sheet[k + 1], 0)
    IN  new_val_cols[Min(call_arg.year_index.num, Len(new_val_cols) - 1) + 1]

\* the pair of data row i (1-based) with the figure in column col is returned
FigureReturned(i, col) ==
    \E p \in 1..Len(call_result.value) :
        call_result.value[p] = << RowLabel(Sheet[i], SheetLayout.label_col),
                                  _to_number(CellAt(Sheet[i], col)) >>

\* C22: in the single-year parse of a statutory sheet, a data row below a
\* section title that is followed by a header with dates or years has its
\* figure read from the column selected from that header.
C22_TitleReassignsTheValueColumn ==
    StatutorySingleYear
        => \A j \in SheetDataRows :
               LET above == {i \in TitleRows : i + 1 < j}
                   col == TitleColumn(CHOOSE i \in above : \A h \in above : h <= i)
               IN  (above # {} /\ _is_numeric(CellAt(Sheet[j], col)))
                       => FigureReturned(j, col)

\* what the code does: with or without a title above it, a data row with a
\* figure in the column picked at the sheet's first header has that figure
\* returned
C22_FirstHeaderDecides ==
    StatutorySingleYear
        => \A j \in SheetDataRows : \A c \in ReadColumns :
               _is_numeric(CellAt(Sheet[j], c.col)) => FigureReturned(j, c.col)

\* the label cell of a title row is a label: the branch that looks for a new
\* header is not taken for it
C22_TitleIsALabel ==
    StatutorySingleYear
        => \A i \in TitleRows : _is_label(CellAt(Sheet[i + 1], SheetLayout.label_col))

\* 2025 over column 1, then "BALANCE SHEET" with 2026 in column 2, then a
\* row with 5 and 7: parsed with year_index 0, the 5 of column 1 is returned
C22_TitleWitness ==
    /\ StatutorySingleYear
    /\ call_arg.year_index = PyInt(0)
    /\ Sheet = << <<ParticularsCell, PyInt(2025), PyNone>>,
                  <<BalanceSheetCell, PyNone, PyInt(2026)>>,
                  <<SalesCell, Five, Seven>> >>
    /\ TitleRows = {1}
    /\ TitleColumn(1) = 2
    /\ call_result.value = << <<LabelSales, PyFloat(5, 0)>> >>

(***************************************************************************)
(* C21: a sheet with the two sides of a ledger (ParseSpec)                 *)
(***************************************************************************)
\* one of the first ten rows of the sheet holds both "Dr." and "Cr."
DrAndCrInHeader ==
    \E i \in 1..Min(Len(Sheet), 10) :
        Contains(RowText(Sheet[i]), DrDot) /\ Contains(RowText(Sheet[i]), CrDot)

\* the pair is in what parse_file returned; the all-years mode returns one
\* list, which holds each label once
PairReturned(pair) ==
    /\ call_result.exc = ""
    /\ IF AllYears
       THEN /\ Len(call_result.value) = 1
            /\ \E p \in 1..Len(call_result.value[1].pairs) :
                   LabelKey(call_result.value[1].pairs[p][1]) = LabelKey(pair[1])
       ELSE \E p \in 1..Len(call_result.value) : call_result.value[p] = pair

\* the pairs of the rows from row first (0-based) on in the columns of a
\* group are returned: those with a label, a figure that is not zero, and,
\* in the balance sheet, a label other than "Total"
GroupReturned(group, first, balance_sheet) ==
    \A i \in (first + 1)..Len(Sheet) :
        LET raw_label == CellAt(Sheet[i], group.label_col)
            raw_value == CellAt(Sheet[i], group.value_col)
        IN  (_is_label(raw_label) /\ _is_numeric(raw_value))
                => \A p \in 1..Len(LabelledPair(raw_label, raw_value, TRUE)) :
                       LET pair == LabelledPair(raw_label, raw_value, TRUE)[p]
                       IN  (balance_sheet /\ Lower(pair[1]) = <<"t","o","t","a","l">>) \/ PairReturned(pair)

\* the rows (0-based) that hold "BALANCE SHEET"
BalanceSheetRows ==
    {i \in 0..(Len(Sheet) - 1) : Contains(Upper(RowJoin(Sheet[i + 1])), <<"B","A","L","A","N","C","E"," ","S","H","E","E","T">>)}

\* the pairs of the balance sheet that starts at row start (0-based) are
\* returned: those of its column groups, in the rows below its column titles
BalanceSheetReturned(start) ==
    LET bs_grid == RowsFrom(Sheet, start)
        titled == {i \in 1..(Min(Len(bs_grid), 5) - 1) :
                      \/ Contains(RowText(bs_grid[i + 1]), <<"a","m","o","u","n","t">>)
                      \/ Contains(RowText(bs_grid[i + 1]), <<"l","i","a","b","i","l","i","t","i","e","s">>)}
        groups == ColumnGroups(bs_grid, max_cols(bs_grid), 2, 0)
    IN  \A g \in 1..Len(groups) :
            GroupReturned(groups[g],
                          start + (IF titled = {} THEN 2 ELSE Leftmost(titled) + 1), TRUE)

\* C21: a sheet with "Dr." and "Cr." in one of its first rows is classified
\* as a ledger, also when it holds years, and its parse returns the pairs of
\* every column group detected on either side and those of a balance sheet
\* below the ledger.
C21_LedgerReturnsBothSidesAndBalanceSheet ==
    (ParsedOneSheet /\ DrAndCrInHeader)
        => /\ SheetLayout.type = "t_account"
           /\ \A g \in 1..Len(SheetLayout.groups) :
                  GroupReturned(SheetLayout.groups[g], SheetLayout.header_row + 1, FALSE)
           /\ BalanceSheetRows # {} => BalanceSheetReturned(Leftmost(BalanceSheetRows))

\* the first part holds: the ledger is classified before the years are
\* looked at
C21_LedgerTakesPriority ==
    (ParsedOneSheet /\ DrAndCrInHeader) => SheetLayout.type = "t_account"

\* the second part holds for the sheets on which a column group is detected
C21_ReturnedWhenAGroupIsDetected ==
    (ParsedOneSheet /\ DrAndCrInHeader /\ SheetLayout.groups # <<>>)
        => /\ \A g \in 1..Len(SheetLayout.groups) :
                  GroupReturned(SheetLayout.groups[g], SheetLayout.header_row + 1, FALSE)
           /\ BalanceSheetRows # {} => BalanceSheetReturned(Leftmost(BalanceSheetRows))

\* a ledger with three rows on each side and a balance sheet of two rows,
\* with years in its first row, parsed with year_index 0
C21_BothSidesWitness ==
    /\ ParsedOneSheet
    /\ call_arg.year_index = PyInt(0)
    /\ Len(Sheet) = 8
    /\ Sheet[1] = <<DrParticularsCell, PyInt(2025), CrParticularsCell, PyInt(2026)>>
    /\ \A i \in 2..4 : Sheet[i] = <<ToPurchasesCell, Five, BySalesCell, Seven>>
    /\ SheetLayout.groups = << [label_col |-> 0, value_col |-> 1],
                               [label_col |-> 2, value_col |-> 3] >>
    /\ PairReturned(<<<<"P","u","r","c","h","a","s","e","s">>, PyFloat(5, 0)>>)
    /\ PairReturned(<<<<"S","a","l","e","s">>, PyFloat(7, 0)>>)
    /\ PairReturned(<<<<"C","a","p","i","t","a","l">>, PyFloat(9, 0)>>)
    /\ PairReturned(<<<<"B","a","n","k">>, PyFloat(9, 0)>>)

\* a balance sheet of two rows below a ledger without rows: no column group
\* is detected, and the assets of the balance sheet are not returned
C21_BalanceSheetLostWitness ==
    /\ ParsedOneSheet
    /\ call_arg.year_index = PyInt(0)
    /\ Sheet = << <<DrParticularsCell, AmountCell, CrParticularsCell, AmountCell>>,
                  <<BalanceSheetCell, PyNone, PyNone, PyNone>>,
                  <<LiabilitiesCell, AmountCell, AssetsCell, AmountCell>>,
                  <<CapitalCell, Nine, BankCell, Nine>>,
                  <<CapitalCell, Nine, BankCell, Nine>> >>
    /\ SheetLayout.groups = <<>>
    /\ call_result.value = << <<<<"C","a","p","i","t","a","l">>, PyFloat(9, 0)>>, <<<<"C","a","p","i","t","a","l">>, PyFloat(9, 0)>> >>

=============================================================================
